---- MODULE Spec2Model ----
(***************************************************************************)
(* A model of the resilient crawl engine of mrosupply-scraper:             *)
(*   - AdaptiveRateLimiter          (src/adaptive_rate.py)                  *)
(*   - SmartRetryManager            (src/retry_manager.py)                  *)
(*   - RotatingResidentialScraper   (src/scraper_rotating_residential.py)   *)
(*   - ScraperWatchdog              (src/watchdog.py)                       *)
(*   - ProxyManager                 (src/proxy_manager.py)                  *)
(*   - GracefulShutdown             (src/utils/signal_handlers.py)          *)
(*   - NetworkMonitor               (src/utils/network_utils.py)            *)
(*   - WebshareProxyManager         (src/production_scraper_webshare.py)    *)
(* Each component has its own specifications (SpecRate; SpecRetry,          *)
(* SpecBackoff, SpecPriority, SpecAbandon; SpecScraper; SpecProxy;          *)
(* SpecShutdown; SpecNetwork, SpecNetworkEngine, SpecRecovery;              *)
(* SpecWebshare, SpecCounters; SpecQuarantine; SpecQueue; SpecRepeated;     *)
(* SpecCallers; SpecWatchdog, SpecWatchdogLive); the variables of the       *)
(* other components stay at their initial values.                           *)
(***************************************************************************)
EXTENDS Integers, Sequences, FiniteSets, TLC

VARIABLES
    now,          \* time.time(), in seconds
    limiter,      \* the AdaptiveRateLimiter object
    rate_op,      \* the last AdaptiveRateLimiter call: its name and result
    rate_calls,   \* number of record_request runs made so far
    change_time,  \* construction time, then the time of the last adjust_rate
                  \* call that changed current_delay or current_workers
    recorded,     \* every outcome given to record_request so far, oldest
                  \* first
    forced_at,    \* the time of the last force_slow_mode call, -1 before
                  \* the first
    retry,        \* the SmartRetryManager object
    retry_op,     \* the last SmartRetryManager call: name, arguments, result
    disk,         \* the file checkpoint_products.json
    scraper,      \* the RotatingResidentialScraper object
    lock,         \* scraper.lock: 0 when free, else the worker holding it
    main,         \* main(): its position, args.resume, the URLs it read,
                  \* the filtered list of scrape_urls and how many of its
                  \* URLs are submitted
    pool,         \* the ThreadPoolExecutor: its work queue and its threads
    crashes,      \* number of crashes of the scraper process so far
    proxy_manager, \* the ProxyManager object
    proxy_op,     \* the last ProxyManager call: its name, the proxy given
                  \* and the proxy returned
    shutdown,     \* the GracefulShutdown object and its shutdown thread
    process,      \* the scraper process: alive, or ended with an exit code
    net,          \* the NetworkMonitor object
    net_op,       \* the last NetworkMonitor call: its name and its result
    validation,   \* the WebshareProxyManager object and the position of its
                  \* validate_proxies call
    counters,     \* the counters worker threads share, and the lock of
                  \* ProxyManager
    threads,      \* per worker thread: the call it is in, its position in
                  \* it and the counter value it has read
    callers,      \* per worker thread: its position inside
                  \* NetworkMonitor.handle_connection_error
    monitor_log,  \* history: outage alerts sent, ONLINE -> OFFLINE steps,
                  \* handle_connection_error calls, failed probes
    watchdog,     \* the ScraperWatchdog object, the position of start()
                  \* and the scraper process it launched last
    hist          \* history: the URLs json.load gave to the last
                  \* load_checkpoint, the last checkpoint written in full,
                  \* the one last opened for writing, the URLs that were
                  \* in scraped_urls but not in the file at the last crash,
                  \* and the URLs that were terminal at a crash

rateVars ==
    <<limiter, rate_op, rate_calls, change_time, recorded, forced_at>>
retryVars == <<retry, retry_op>>
scraperVars == <<disk, scraper, lock, main, pool, crashes, hist>>
proxyVars == <<proxy_manager, proxy_op>>
shutdownVars == <<shutdown, process>>
netVars == <<net, net_op>>
webshareVars == <<validation>>
counterVars == <<counters, threads>>
callerVars == <<callers, monitor_log>>
watchdogVars == <<watchdog>>
tailVars == <<webshareVars, counterVars, callerVars, watchdogVars>>
vars == <<now, limiter, rate_op, rate_calls, change_time, recorded,
          forced_at, retry, retry_op,
          disk, scraper, lock, main, pool, crashes, hist, proxy_manager,
          proxy_op, shutdown, process, net, net_op, validation, counters,
          threads, callers, monitor_log, watchdog>>

Min(a, b) == IF a <= b THEN a ELSE b
Max(a, b) == IF a >= b THEN a ELSE b

(***************************************************************************)
(* RotatingResidentialScraper and its checkpoint file.  A URL is a number; *)
(* a product is the record of its 'url' field, the only field the resume   *)
(* logic reads.  checkpoint_products.json is absent, complete (it parses   *)
(* to the list of products written) or partial (opened for writing but     *)
(* the dump did not finish: json.load raises on it).                       *)
(***************************************************************************)
CHECKPOINT_EVERY == 50

\* bounds of the scraper model
ForeignProducts == 47  \* products of earlier sessions kept in the checkpoint
NumInput == 3          \* URLs of the input file
NumWorkers == 2        \* threads of the ThreadPoolExecutor
MaxCrashes == 1        \* crashes followed by a watchdog restart

Range(s) == { s[i] : i \in DOMAIN s }

Product(url) == [url |-> url]

\* the URL file given to main(), in file order
InputUrls == [i \in 1..NumInput |-> ForeignProducts + i]

\* products of URLs that are not in the input
ForeignList == [i \in 1..ForeignProducts |-> Product(i)]

NoFile == [state |-> "absent", products |-> << >>]

CompleteFile(products) == [state |-> "complete", products |-> products]

\* checkpoint_products.json as a session can find it: no file, the products
\* of earlier sessions only, these plus the first two input URLs, or these
\* plus the second and third input URL (the first one failed)
InitialFiles ==
    { NoFile,
      CompleteFile(ForeignList),
      CompleteFile(ForeignList \o
                   << Product(InputUrls[1]), Product(InputUrls[2]) >>),
      CompleteFile(ForeignList \o
                   << Product(InputUrls[2]), Product(InputUrls[3]) >>) }

\* {p['url'] for p in products}
product_urls(products) == { products[i].url : i \in DOMAIN products }

NewScraper ==
    [ products |-> << >>,
      scraped_urls |-> {},
      success_count |-> 0,
      failed_urls |-> << >>,
      failed_count |-> 0 ]

load_checkpoint_keeps_no_urls(s, file) ==
    IF file.state = "complete"
    THEN << [s EXCEPT !.products = file.products,
                      !.success_count = Len(file.products)], TRUE >>
    ELSE << s, FALSE >>

\* load_checkpoint(): the scraper after the call and the value returned
load_checkpoint(s, file) ==
    IF file.state = "absent"
    THEN << s, FALSE >>
    ELSE IF file.state = "partial"
    THEN << s, FALSE >>   \* json.load raises, the except branch returns False
    ELSE << [s EXCEPT !.products = file.products,
                      !.scraped_urls = product_urls(file.products),
                      !.success_count = Len(file.products)], TRUE >>

urls_to_scrape_by_count(urls, s) ==
    SubSeq(urls, s.success_count + 1, Len(urls))

\* scrape_urls(): urls = [url for url in urls if url not in self.scraped_urls]
urls_to_scrape(urls, s) ==
    SelectSeq(urls, LAMBDA u : u \notin s.scraped_urls)

\* scrape_url(), the branch 'if product:' up to the modulo-50 condition
store_product(s, url) ==
    [s EXCEPT !.products = Append(@, Product(url)),
              !.success_count = @ + 1,
              !.scraped_urls = @ \cup {url}]

\* scrape_url(), the 'else:' branch
store_failure(s, url) ==
    [s EXCEPT !.failed_urls = Append(@, url),
              !.failed_count = @ + 1]

\* if self.success_count % 50 == 0
checkpoint_due(s) == s.success_count % CHECKPOINT_EVERY = 0

\* save_checkpoint(): open(checkpoint_json, 'w') truncates the file
open_for_writing(file) == [state |-> "partial", products |-> << >>]

\* save_checkpoint(): json.dump(self.products, f) and the close of the file
json_dump(file, products) == CompleteFile(products)

\* the URLs whose scrape_url call has ended in this process or that were
\* loaded as scraped: stored as a product, or stored as failed after the
\* retries of scrape_product
TerminalUrls(s) == s.scraped_urls \cup Range(s.failed_urls)

\* what json.load gives for the file, if anything
FileUrls(file) ==
    IF file.state = "complete" THEN product_urls(file.products) ELSE {}

IdleWorker == [pc |-> "idle", url |-> 0]

NewPool == [queue |-> << >>, workers |-> [w \in 1..NumWorkers |-> IdleWorker]]

\* main() at its start: args.resume and the URLs read from the URL file
NewMain(resume) ==
    [ pc |-> "start", resume |-> resume, urls |-> InputUrls,
      todo |-> << >>, submitted |-> 0 ]

NewHist(file) ==
    [ ckpt_at_load |-> {}, good |-> file.products, writing |-> file.products,
      lost |-> {}, terminal |-> {} ]

\* the scraper before it is started, as the other specifications keep it
ScraperAtRest ==
    /\ disk = NoFile
    /\ scraper = NewScraper
    /\ lock = 0
    /\ main = NewMain(FALSE)
    /\ pool = NewPool
    /\ crashes = 0
    /\ hist = NewHist(NoFile)

(***************************************************************************)
(* ProxyManager (src/proxy_manager.py).  A proxy is the record of its      *)
(* 'address' field, the only field selection and quarantine read; the      *)
(* per-address counters of proxy_stats are written and never read by       *)
(* them, and are left out.                                                 *)
(***************************************************************************)
\* bounds of the proxy model
NumProxies == 3        \* proxies given by fetch_proxies
MaxProxyIndex == 5     \* largest current_index a selection starts from

Proxy(a) == [address |-> a]

\* the value None
NoProxy == [address |-> 0]

\* the list fetch_proxies stores in self.proxies
FetchedProxies == [i \in 1..NumProxies |-> Proxy(i)]

\* the lists validate_proxies can store in self.working_proxies: the
\* proxies of the sample that passed test_proxy
WorkingLists ==
    { SelectSeq(FetchedProxies, LAMBDA p : p.address \in S) :
        S \in SUBSET (1..NumProxies) }

NewProxyManager ==
    [ proxies |-> << >>,
      working_proxies |-> << >>,
      failed_proxies |-> {},
      current_index |-> 0 ]

\* pool = self.working_proxies if self.working_proxies else self.proxies
selection_pool(pm) ==
    IF pm.working_proxies # << >> THEN pm.working_proxies ELSE pm.proxies

\* pool[self.current_index % len(pool)]
pool_at(candidates, index) == candidates[(index % Len(candidates)) + 1]

\* get_next_proxy(): the while loop, entered with the proxy read last, the
\* index already advanced past it and the number of turns taken
RECURSIVE skip_failed(_, _, _, _)
skip_failed(pm, candidates, proxy, attempts) ==
    IF proxy.address \in pm.failed_proxies /\ attempts < Len(candidates)
    THEN skip_failed([pm EXCEPT !.current_index = @ + 1], candidates,
                     pool_at(candidates, pm.current_index), attempts + 1)
    ELSE << pm, proxy >>

get_next_proxy_no_skip(pm) ==
    LET candidates == selection_pool(pm) IN
    IF candidates = << >> THEN << pm, NoProxy >>
    ELSE << [pm EXCEPT !.current_index = @ + 1],
            pool_at(candidates, pm.current_index) >>

\* get_next_proxy(): the manager after the call and the proxy returned
get_next_proxy(pm) ==
    LET candidates == selection_pool(pm) IN
    IF candidates = << >> THEN << pm, NoProxy >>
    ELSE skip_failed([pm EXCEPT !.current_index = @ + 1], candidates,
                     pool_at(candidates, pm.current_index), 0)

\* get_random_proxy(): the manager after the call and the list that
\* random.choice draws the returned proxy from (empty: None is returned)
get_random_proxy(pm) ==
    LET candidates == selection_pool(pm)
        available ==
            SelectSeq(candidates,
                      LAMBDA p : p.address \notin pm.failed_proxies)
    IN  IF candidates = << >> THEN << pm, << >> >>
        ELSE IF available = << >>
        THEN << [pm EXCEPT !.failed_proxies = {}], candidates >>
        ELSE << pm, available >>

\* mark_proxy_failed(): len(failed_proxies) > len(proxies) * 0.8 is compared
\* in tenths
mark_proxy_failed(pm, proxy) ==
    IF proxy = NoProxy THEN pm
    ELSE LET failed == pm.failed_proxies \cup {proxy.address} IN
         [pm EXCEPT !.failed_proxies =
              IF Cardinality(failed) * 10 > Len(pm.proxies) * 8
              THEN {} ELSE failed]

\* mark_proxy_success()
mark_proxy_success(pm, proxy) ==
    IF proxy = NoProxy THEN pm
    ELSE [pm EXCEPT !.failed_proxies = @ \ {proxy.address}]

NoProxyCall == [name |-> "init", arg |-> NoProxy, ret |-> NoProxy]

\* the proxy manager before any call, as the other specifications keep it
ProxyAtRest ==
    /\ proxy_manager = NewProxyManager
    /\ proxy_op = NoProxyCall

(***************************************************************************)
(* GracefulShutdown (src/utils/signal_handlers.py) installed on the        *)
(* RotatingResidentialScraper, and the scraper process.                    *)
(***************************************************************************)
\* bound of the shutdown model
MaxSignals == 3        \* termination signals sent to the process

EXIT_GRACEFUL == 0
EXIT_FORCED == 1

\* the attributes and methods hasattr() finds on a RotatingResidentialScraper
\* among those GracefulShutdown asks for; should_stop, stop_workers,
\* active_requests, executor, export_to_csv and close are not among them
ScraperAttributes == {"save_checkpoint", "save_results", "start_time"}

hasattr_scraper(name) == name \in ScraperAttributes

\* GracefulShutdown.__init__, with the position of the shutdown thread
\* ("none" before it is started) and the number of signals handled
\* thread is the step of _perform_shutdown the shutdown thread is about to
\* run, steps the steps it has run, in the order it ran them, and raised
\* the steps whose body raised an exception that the step caught
NewShutdown ==
    [ shutdown_requested |-> FALSE,
      force_shutdown |-> FALSE,
      thread |-> "none",
      signals |-> 0,
      steps |-> <<>>,
      raised |-> {} ]

\* the statements of _perform_shutdown, top to bottom
ShutdownSequence ==
    << "stop_new_work", "wait", "save_checkpoint", "save_partial_results",
       "notify", "cleanup", "exit" >>

\* what scraper.save_checkpoint() can do when called from _save_checkpoint:
\* return, raise in open(), or raise in json.dump()
SaveOutcomes == {"saved", "open_raised", "dump_raised"}

\* the checkpoint file after a save_checkpoint() call with that outcome
checkpoint_after(file, products, outcome) ==
    IF outcome = "saved" THEN json_dump(file, products)
    ELSE IF outcome = "dump_raised" THEN open_for_writing(file)
    ELSE file

\* the scraper process: running, or ended with an exit code; exiting is the
\* code of a SystemExit that main() is propagating, -1 when there is none
NewProcess == [alive |-> TRUE, exit_code |-> -1, exiting |-> -1]

\* _get_active_request_count(): no active_requests and no executor
\* attribute on the scraper, so the count is 0 whatever is in flight
get_active_request_count(in_flight) ==
    IF hasattr_scraper("active_requests") THEN in_flight
    ELSE 0

\* the fetches in flight: calls of scrape_url that a worker thread runs
ActiveFetches(p) ==
    Cardinality({ w \in DOMAIN p.workers : p.workers[w].pc # "idle" })

\* the handler and the process before any signal, as the other
\* specifications keep them
ShutdownAtRest ==
    /\ shutdown = NewShutdown
    /\ process = NewProcess

(***************************************************************************)
(* NetworkMonitor (src/utils/network_utils.py).  Times are in seconds;     *)
(* None is -1.  connectivity_history, which only get_connectivity_stats    *)
(* reads, is left out.                                                     *)
(***************************************************************************)
CHECK_INTERVAL == 60
MAX_OUTAGE_DURATION == 3600
FAILURE_THRESHOLD == 3
PERIODIC_CHECK_INTERVAL == 300

\* bounds of the network model
MaxNetClock == 4200    \* largest value of time.time()
MaxMonitorCalls == 4   \* handle_connection_error calls and failed turns of
                       \* the loop of _wait_for_network_recovery

\* time passes by the period of periodic_check or by more than the
\* longest outage waited for
NetClockSteps == {PERIODIC_CHECK_INTERVAL, MAX_OUTAGE_DURATION + 300}

None == -1

\* NetworkMonitor.__init__; waiting tells that a thread is inside
\* _wait_for_network_recovery
NewNetworkMonitor ==
    [ is_connected |-> TRUE,
      outage_start_time |-> None,
      last_check_time |-> 0,
      consecutive_failures |-> 0,
      waiting |-> FALSE ]

\* _record_check(success)
record_check(n, success) ==
    [n EXCEPT !.consecutive_failures = IF success THEN 0 ELSE @ + 1]

\* check_connectivity(): reachable tells whether one of check_urls answered
check_connectivity(n, reachable) == << record_check(n, reachable), reachable >>

\* _handle_network_outage()
handle_network_outage(n, t) ==
    [n EXCEPT !.is_connected = FALSE, !.outage_start_time = t]

\* _handle_network_recovery()
handle_network_recovery(n) ==
    [n EXCEPT !.is_connected = TRUE,
              !.outage_start_time = None,
              !.consecutive_failures = 0]

\* outage_duration > self.max_outage_duration
outage_too_long(n, t) ==
    /\ n.outage_start_time # None
    /\ t - n.outage_start_time > MAX_OUTAGE_DURATION

\* handle_connection_error() up to its return or to its entry into
\* _wait_for_network_recovery(): the monitor and "True", "False" or "waiting"
handle_connection_error(n, t) ==
    LET n1 == [n EXCEPT !.consecutive_failures = @ + 1] IN
    IF n1.consecutive_failures >= FAILURE_THRESHOLD
    THEN LET n2 == IF n1.is_connected THEN handle_network_outage(n1, t)
                   ELSE n1
         IN  IF outage_too_long(n2, t) THEN << n2, "False" >>
             ELSE << [n2 EXCEPT !.waiting = TRUE], "waiting" >>
    ELSE << n1, "True" >>

\* a variant of the loop turn without the check of the outage duration
wait_for_network_recovery_no_timeout(n, t, reachable) ==
    LET res == check_connectivity(n, reachable) IN
    IF res[2]
    THEN << [handle_network_recovery(res[1]) EXCEPT !.waiting = FALSE],
            "True", t >>
    ELSE << res[1], "waiting", t + CHECK_INTERVAL >>

\* one turn of the loop of _wait_for_network_recovery(): the monitor, the
\* outcome ("True", "False", or "waiting" for a turn that ends in
\* time.sleep(check_interval)) and the time after the turn
wait_for_network_recovery(n, t, reachable) ==
    IF outage_too_long(n, t)
    THEN << [n EXCEPT !.waiting = FALSE], "False", t >>
    ELSE LET res == check_connectivity(n, reachable) IN
         IF res[2]
         THEN << [handle_network_recovery(res[1]) EXCEPT !.waiting = FALSE],
                 "True", t >>
         ELSE << res[1], "waiting", t + CHECK_INTERVAL >>

\* periodic_check()
periodic_check(n, t, reachable) ==
    IF t - n.last_check_time < PERIODIC_CHECK_INTERVAL THEN n
    ELSE LET res == check_connectivity([n EXCEPT !.last_check_time = t],
                                       reachable)
         IN  IF ~res[2] /\ res[1].is_connected
             THEN handle_network_outage(res[1], t)
             ELSE IF res[2] /\ ~res[1].is_connected
             THEN handle_network_recovery(res[1])
             ELSE res[1]

\* is_network_available()
is_network_available(n) == n.is_connected

\* the last call, and the number of calls counted by MaxMonitorCalls
NoNetCall == [name |-> "init", ret |-> "None", calls |-> 0]

\* the monitor before any call, as the other specifications keep it
NetworkAtRest ==
    /\ net = NewNetworkMonitor
    /\ net_op = NoNetCall

(***************************************************************************)
(* WebshareProxyManager.validate_proxies (src/production_scraper_webshare  *)
(* .py).  A proxy is its position in all_proxies; test_proxy is a request  *)
(* whose result the proxy and the network decide.                          *)
(***************************************************************************)
WebshareProxies == 2   \* proxies fetch_proxies put into all_proxies
MaxTestCount == 4      \* largest test_count given to validate_proxies

\* the threshold of validate_proxies: "if success_count >= 2"
enough_successes(success_count) == success_count >= 2

\* the manager after fetch_proxies, before validate_proxies is called;
\* probes and success_count are the loop variables of validate_proxies,
\* tested maps every classified proxy to the success_count it was
\* classified with
NewValidation ==
    [ all_proxies     |-> [ i \in 1..WebshareProxies |-> i ],
      working_proxies |-> <<>>,
      failed_proxies  |-> <<>>,
      test_count      |-> 0,
      pc              |-> "fetched",
      index           |-> 0,
      probes          |-> 0,
      success_count   |-> 0,
      tested          |-> <<>> ]

\* the end of one turn of "for i, proxy in enumerate(self.all_proxies, 1)":
\* the proxy goes to working_proxies or to failed_proxies
classify(v) ==
    LET proxy == v.all_proxies[v.index]
        last == v.index = Len(v.all_proxies)
        w == [v EXCEPT !.tested = Append(@, v.success_count),
                       !.index = IF last THEN @ ELSE @ + 1,
                       !.pc = IF last THEN "validated" ELSE @,
                       !.probes = 0,
                       !.success_count = 0]
    IN  IF enough_successes(v.success_count)
        THEN [w EXCEPT !.working_proxies = Append(@, proxy)]
        ELSE [w EXCEPT !.failed_proxies = Append(@, proxy)]

\* one turn of "for _ in range(test_count)": a test_proxy call with result
\* ok, followed by the classification when this was the last probe
probe(v, ok) ==
    LET w == [v EXCEPT !.probes = @ + 1,
                       !.success_count = IF ok THEN @ + 1 ELSE @]
    IN  IF w.probes = w.test_count THEN classify(w) ELSE w

WebshareAtRest == validation = NewValidation

(***************************************************************************)
(* The shared counters that worker threads update:                          *)
(*   WebshareProxyManager.proxy_stats  (no lock around "+= 1"),             *)
(*   ProxyManager.proxy_stats          ("+= 1" inside "with self.lock"),    *)
(*   AdaptiveRateLimiter.total_requests, successful_requests and            *)
(*   failed_requests                   (no lock around "+= 1").             *)
(* "x += 1" is a read of x followed by a write of the value read plus one; *)
(* another thread can run between the two.                                  *)
(***************************************************************************)
NumThreads == 2        \* worker threads
MaxCounterCalls == 3   \* calls made by all threads together

Threads == 1..NumThreads
Endpoints == {"p1", "p2"}
CounterCalls ==
    [ name : {"webshare.mark_proxy_success", "webshare.mark_proxy_failed",
              "mark_proxy_success", "mark_proxy_failed"},
      proxy : Endpoints, success : {FALSE} ]
    \cup [ name : {"record_request"}, proxy : {"p1"}, success : BOOLEAN ]

ZeroStats == [ p \in Endpoints |-> [ success |-> 0, failed |-> 0 ] ]

\* the three objects after construction (and fetch_proxies), with the
\* number of calls made for each counter
NewCounters ==
    [ webshare_stats      |-> ZeroStats,
      proxy_stats         |-> ZeroStats,
      proxy_lock          |-> 0,
      total_requests      |-> 0,
      successful_requests |-> 0,
      failed_requests     |-> 0,
      webshare_calls      |-> [ p \in Endpoints |-> 0 ],
      proxy_calls         |-> [ p \in Endpoints |-> 0 ],
      record_calls        |-> 0,
      calls               |-> 0 ]

IdleThread == [ pc |-> "idle", call |-> [ name |-> "none" ], read |-> 0 ]
NewThreads == [ t \in Threads |-> IdleThread ]

\* the key of the per-proxy counter a mark_proxy_* call adds to
stat_key(call) ==
    IF call.name \in {"webshare.mark_proxy_success", "mark_proxy_success"}
    THEN "success" ELSE "failed"

\* the second counter record_request adds to
outcome_counter(call) ==
    IF call.success THEN "successful_requests" ELSE "failed_requests"

CountersAtRest ==
    /\ counters = NewCounters
    /\ threads = NewThreads

(***************************************************************************)
(* Worker threads inside NetworkMonitor.handle_connection_error            *)
(* (src/utils/network_utils.py), which takes no lock.  A thread is idle,   *)
(* or has counted its failure and is before 'if self.is_connected'         *)
(* (test_connected), before the first or the second assignment of          *)
(* _handle_network_outage (outage_flag, outage_time), before the check of  *)
(* the outage duration (give_up_check), or in the loop of                  *)
(* _wait_for_network_recovery (waiting).                                   *)
(***************************************************************************)
NewCallers == [ t \in Threads |-> "idle" ]

NewMonitorLog == [ alerts |-> 0, outages |-> 0, calls |-> 0, probes |-> 0 ]

CallersAtRest ==
    /\ callers = NewCallers
    /\ monitor_log = NewMonitorLog

(***************************************************************************)
(* ScraperWatchdog (src/watchdog.py) with the default settings of          *)
(* src/config.py.  process is "none" (None) or "child" (the Popen object   *)
(* of the scraper launched last); child tells whether that scraper is      *)
(* running and whether terminate() was called on it; launches and          *)
(* launch_failures count the launch_scraper calls by their outcome.        *)
(***************************************************************************)
RESTART_DELAY_SECONDS == 30
MAX_RESTARTS_PER_HOUR == 5
MAX_TOTAL_RESTARTS == 20
RATE_LIMIT_WAIT == 300         \* time.sleep(300) of handle_crash
RESTART_WINDOW == 3600         \* "time.time() - t < 3600"
RESTART_TIMES_MAXLEN == 20     \* deque(maxlen=20)

\* ScraperWatchdog.__init__, at the start of start()
NewWatchdog ==
    [ restart_count |-> 0,
      restart_times |-> << >>,
      process |-> "none",
      should_stop |-> FALSE,
      pc |-> "loop_test",
      child |-> [ alive |-> FALSE, terminated |-> FALSE ],
      launches |-> 0,
      launch_failures |-> 0,
      should_restart |-> TRUE ]

WatchdogAtRest == watchdog = NewWatchdog

(***************************************************************************)
(* AdaptiveRateLimiter.  Delays are fixed-point numbers in microseconds    *)
(* (0.1 s = 100000); the percentages are the class constants times 100.    *)
(* Worker counts are integers and int(x * 0.9), int(x * 1.05), int(x * 1.5) *)
(* are computed as truncating integer divisions.                           *)
(***************************************************************************)
SLOW_DOWN_THRESHOLD == 85
SPEED_UP_THRESHOLD == 95
SLOWDOWN_DELAY_INCREASE == 25
SLOWDOWN_WORKER_DECREASE == 10
SPEEDUP_DELAY_DECREASE == 10
SPEEDUP_WORKER_INCREASE == 5
MIN_ADJUSTMENT_INTERVAL == 300
MAX_WORKER_MULTIPLIER == 150
MIN_WORKER_COUNT == 1
MIN_DELAY == 100000
MAX_DELAY == 5000000
SAMPLE_SIZE == 100
MIN_SAMPLE == 10

\* Bounds of the rate limiter model.
MaxRateClock == 600
MaxRecordCalls == 2

\* Constructor arguments <<initial_delay, initial_workers>>: the defaults of
\* the repository's scrapers (0.3 s / 20 workers, 0.5 s / 20 workers) and the
\* two corners of the permitted range.
InitialSettings ==
    { <<300000, 20>>, <<MIN_DELAY, 1>>, <<MAX_DELAY, 3>> }

\* Runs of record_request calls, <<s, f>>: s successes then f failures.
RecordRuns ==
    { <<0, 1>>, <<1, 0>>, <<9, 0>>, <<0, 10>>,
      <<17, 3>>, <<19, 1>>, <<90, 10>>, <<70, 30>> }

RateClockSteps == {150, 300}

\* a variant of the deque that, once full, drops what is appended
deque_extend_drops_newest(h, xs) ==
    LET all == h \o xs IN
    IF Len(all) > SAMPLE_SIZE THEN SubSeq(all, 1, SAMPLE_SIZE) ELSE all

\* collections.deque(maxlen=SAMPLE_SIZE) after appending the entries xs one by
\* one: each append beyond the capacity evicts the oldest entry.
deque_extend(h, xs) ==
    LET all == h \o xs IN
    IF Len(all) > SAMPLE_SIZE
    THEN SubSeq(all, Len(all) - SAMPLE_SIZE + 1, Len(all))
    ELSE all

deque_append(h, x) == deque_extend(h, <<x>>)

\* AdaptiveRateLimiter.__init__
NewLimiter(delay, workers, t) ==
    [ initial_delay |-> delay,
      initial_workers |-> workers,
      current_delay |-> delay,
      current_workers |-> workers,
      request_history |-> << >>,
      last_adjustment_time |-> t,
      adjustment_count |-> 0,
      slowdown_count |-> 0,
      speedup_count |-> 0,
      total_requests |-> 0,
      successful_requests |-> 0,
      failed_requests |-> 0 ]

\* AdaptiveRateLimiter.record_request
record_request(r, success) ==
    [ r EXCEPT !.request_history = deque_append(@, success),
               !.total_requests = @ + 1,
               !.successful_requests = IF success THEN @ + 1 ELSE @,
               !.failed_requests = IF success THEN @ ELSE @ + 1 ]

\* s calls record_request(True) followed by f calls record_request(False)
record_requests(r, s, f) ==
    [ r EXCEPT !.request_history =
                   deque_extend(@, [i \in 1..(s + f) |-> i <= s]),
               !.total_requests = @ + s + f,
               !.successful_requests = @ + s,
               !.failed_requests = @ + f ]

\* Mutant of should_adjust: the interval check is dropped.
should_adjust_always(r, t) == t - r.last_adjustment_time >= 0

\* AdaptiveRateLimiter.should_adjust
should_adjust(r, t) == t - r.last_adjustment_time >= MIN_ADJUSTMENT_INTERVAL

Successes(h) == Cardinality({ i \in 1..Len(h) : h[i] })

\* AdaptiveRateLimiter.calculate_success_rate: None below the minimum sample,
\* else the rate as the pair <<successes, len>> (successes / len).
NoRate == << >>
calculate_success_rate(r) ==
    IF Len(r.request_history) < MIN_SAMPLE THEN NoRate
    ELSE <<Successes(r.request_history), Len(r.request_history)>>

\* rate < threshold% and rate > threshold%, on the exact fraction
RateBelow(rate, pct) == rate[1] * 100 < pct * rate[2]
RateAbove(rate, pct) == rate[1] * 100 > pct * rate[2]

\* Mutant of _slow_down: the delay is not clamped to MAX_DELAY.
slow_down_rounds_up(r, t) ==
    [ r EXCEPT
        !.current_delay =
            Min((@ * (100 + SLOWDOWN_DELAY_INCREASE)) \div 100, MAX_DELAY),
        !.current_workers =
            Max((@ * (100 - SLOWDOWN_WORKER_DECREASE) + 99) \div 100,
                MIN_WORKER_COUNT),
        !.last_adjustment_time = t,
        !.adjustment_count = @ + 1,
        !.slowdown_count = @ + 1 ]

slow_down_unclamped(r, t) ==
    [ r EXCEPT
        !.current_delay = (@ * (100 + SLOWDOWN_DELAY_INCREASE)) \div 100,
        !.current_workers =
            Max((@ * (100 - SLOWDOWN_WORKER_DECREASE)) \div 100, MIN_WORKER_COUNT),
        !.last_adjustment_time = t,
        !.adjustment_count = @ + 1,
        !.slowdown_count = @ + 1 ]

\* AdaptiveRateLimiter._slow_down
slow_down(r, t) ==
    [ r EXCEPT
        !.current_delay =
            Min((@ * (100 + SLOWDOWN_DELAY_INCREASE)) \div 100, MAX_DELAY),
        !.current_workers =
            Max((@ * (100 - SLOWDOWN_WORKER_DECREASE)) \div 100, MIN_WORKER_COUNT),
        !.last_adjustment_time = t,
        !.adjustment_count = @ + 1,
        !.slowdown_count = @ + 1 ]

max_workers(r) == (r.initial_workers * MAX_WORKER_MULTIPLIER) \div 100

\* AdaptiveRateLimiter._speed_up
speed_up(r, t) ==
    IF r.current_workers >= max_workers(r) /\ r.current_delay <= MIN_DELAY
    THEN r
    ELSE [ r EXCEPT
        !.current_delay =
            Max((@ * (100 - SPEEDUP_DELAY_DECREASE)) \div 100, MIN_DELAY),
        !.current_workers =
            Min((@ * (100 + SPEEDUP_WORKER_INCREASE)) \div 100, max_workers(r)),
        !.last_adjustment_time = t,
        !.adjustment_count = @ + 1,
        !.speedup_count = @ + 1 ]

\* Mutant of adjust_rate: the slow-down threshold is inclusive (<=).
adjust_rate_inclusive(r, t) ==
    IF ~should_adjust(r, t) THEN <<r, FALSE>>
    ELSE LET success_rate == calculate_success_rate(r) IN
         IF success_rate = NoRate THEN <<r, FALSE>>
         ELSE IF ~RateAbove(success_rate, SLOW_DOWN_THRESHOLD)
              THEN <<slow_down(r, t), TRUE>>
         ELSE IF RateAbove(success_rate, SPEED_UP_THRESHOLD)
              THEN <<speed_up(r, t), TRUE>>
         ELSE <<r, FALSE>>

\* AdaptiveRateLimiter.adjust_rate: <<the limiter afterwards, the result>>
adjust_rate(r, t) ==
    IF ~should_adjust(r, t) THEN <<r, FALSE>>
    ELSE LET success_rate == calculate_success_rate(r) IN
         IF success_rate = NoRate THEN <<r, FALSE>>
         ELSE IF RateBelow(success_rate, SLOW_DOWN_THRESHOLD)
              THEN <<slow_down(r, t), TRUE>>
         ELSE IF RateAbove(success_rate, SPEED_UP_THRESHOLD)
              THEN <<speed_up(r, t), TRUE>>
         ELSE <<r, FALSE>>

\* AdaptiveRateLimiter.reset_to_initial
reset_to_initial(r) ==
    [ r EXCEPT !.current_delay = r.initial_delay,
               !.current_workers = r.initial_workers ]

\* a variant of force_slow_mode that does not restart the interval
force_slow_mode_keeps_interval(r, t) ==
    [ r EXCEPT !.current_delay = MAX_DELAY,
               !.current_workers = MIN_WORKER_COUNT ]

\* AdaptiveRateLimiter.force_slow_mode
force_slow_mode(r, t) ==
    [ r EXCEPT !.current_delay = MAX_DELAY,
               !.current_workers = MIN_WORKER_COUNT,
               !.last_adjustment_time = t ]

Changed(r1, r2) ==
    r1.current_delay # r2.current_delay \/ r1.current_workers # r2.current_workers

NoCall == [name |-> "init", ret |-> FALSE]

(***************************************************************************)
(* SmartRetryManager.  Strings that the code inspects (error types) are     *)
(* sequences of one-character strings.                                      *)
(***************************************************************************)
MAX_ATTEMPTS == 5
MAX_RETRY_DELAY == 1800
DEFAULT_BASE_DELAY == 60

\* Bounds of the retry manager model.
MaxRetryClock == 600
MaxTotalRetries == 3
MaxFailedRetries == 1

RetryClockSteps == {300}
RetryUrls == {"u1", "u2", "u3"}
AttemptInputs == {1, MAX_ATTEMPTS - 1}
BatchSizes == {1, 10}

\* error_type arguments: "rate_limit", "404"
RawErrorTypes ==
    { <<"r","a","t","e","_","l","i","m","i","t">>,
      <<"4","0","4">> }

UpperChars == <<"A","B","C","D","E","F","G","H","I","J","K","L","M",
                "N","O","P","Q","R","S","T","U","V","W","X","Y","Z">>
LowerChars == <<"a","b","c","d","e","f","g","h","i","j","k","l","m",
                "n","o","p","q","r","s","t","u","v","w","x","y","z">>

\* str.lower
LowerChar(c) ==
    IF \E i \in 1..Len(UpperChars) : UpperChars[i] = c
    THEN LowerChars[CHOOSE i \in 1..Len(UpperChars) : UpperChars[i] = c]
    ELSE c
Lower(str) == [i \in 1..Len(str) |-> LowerChar(str[i])]

\* sub in str
Contains(str, sub) ==
    \E i \in 0..(Len(str) - Len(sub)) :
        \A j \in 1..Len(sub) : str[i + j] = sub[j]

\* str[:1]
FirstChar(str) == IF Len(str) = 0 THEN << >> ELSE <<str[1]>>

\* SmartRetryManager._normalize_error_type
normalize_error_type(error_type) ==
    LET e == Lower(error_type) IN
    IF Contains(e, <<"4","2","9">>) \/ Contains(e, <<"r","a","t","e">>)
        THEN "rate_limit"
    ELSE IF Contains(FirstChar(e), <<"5">>)
            \/ Contains(e, <<"s","e","r","v","e","r">>)
        THEN "server_error"
    ELSE IF Contains(e, <<"t","i","m","e","o","u","t">>)
        THEN "timeout"
    ELSE IF Contains(e, <<"c","o","n","n","e","c","t","i","o","n">>)
            \/ Contains(e, <<"n","e","t","w","o","r","k">>)
        THEN "connection"
    ELSE IF Contains(e, <<"4","0","4">>)
            \/ Contains(e, <<"n","o","t"," ","f","o","u","n","d">>)
        THEN "not_found"
    ELSE IF Contains(FirstChar(e), <<"4">>)
        THEN "client_error"
    ELSE IF Contains(e, <<"p","a","r","s","e">>)
        THEN "parse_error"
    ELSE IF Contains(e, <<"v","a","l","i","d","a","t","i","o","n">>)
        THEN "validation"
    ELSE "unknown"

\* error_type arguments that _normalize_error_type takes to each of the
\* nine kinds
BackoffErrorTypes ==
    { <<"4","2","9">>,
      <<"5","0","0">>,
      <<"t","i","m","e","o","u","t">>,
      <<"c","o","n","n","e","c","t","i","o","n">>,
      <<"4","0","3">>,
      <<"p","a","r","s","e">>,
      <<"v","a","l","i","d","a","t","i","o","n">>,
      <<"4","0","4">>,
      <<"o","t","h","e","r">> }

\* the nine keys of ERROR_PRIORITIES, each with the error_type argument
\* that spells it
CanonicalNames ==
    { <<"rate_limit",
         <<"r","a","t","e","_","l","i","m","i","t">>>>,
      <<"server_error",
         <<"s","e","r","v","e","r","_","e","r","r","o","r">>>>,
      <<"timeout",
         <<"t","i","m","e","o","u","t">>>>,
      <<"connection",
         <<"c","o","n","n","e","c","t","i","o","n">>>>,
      <<"client_error",
         <<"c","l","i","e","n","t","_","e","r","r","o","r">>>>,
      <<"parse_error",
         <<"p","a","r","s","e","_","e","r","r","o","r">>>>,
      <<"validation",
         <<"v","a","l","i","d","a","t","i","o","n">>>>,
      <<"unknown",
         <<"u","n","k","n","o","w","n">>>>,
      <<"not_found",
         <<"n","o","t","_","f","o","u","n","d">>>> }

CanonicalErrorTypes == { p[2] : p \in CanonicalNames }

\* the key that the argument e spells
NameOf(e) == (CHOOSE p \in CanonicalNames : p[2] = e)[1]

\* the normalisation of the arguments the model uses, computed once
NormalizeTable ==
    [e \in RawErrorTypes \cup BackoffErrorTypes \cup CanonicalErrorTypes
        |-> normalize_error_type(e)]
Normalized(e) ==
    IF e \in DOMAIN NormalizeTable THEN NormalizeTable[e]
    ELSE normalize_error_type(e)

ErrorKinds == { "rate_limit", "server_error", "timeout", "connection",
                "client_error", "parse_error", "validation", "not_found",
                "unknown" }

\* SmartRetryManager.ERROR_PRIORITIES
ERROR_PRIORITIES ==
    [ k \in ErrorKinds |->
        CASE k = "rate_limit" -> 1
          [] k = "server_error" -> 2
          [] k = "timeout" -> 3
          [] k = "connection" -> 4
          [] k = "client_error" -> 5
          [] k = "parse_error" -> 6
          [] k = "validation" -> 7
          [] k = "not_found" -> 10
          [] k = "unknown" -> 8 ]

\* SmartRetryManager.BASE_DELAYS
BASE_DELAYS ==
    [ k \in ErrorKinds |->
        CASE k = "rate_limit" -> 60
          [] k = "server_error" -> 30
          [] k = "timeout" -> 30
          [] k = "connection" -> 60
          [] k = "client_error" -> 120
          [] k = "parse_error" -> 60
          [] k = "validation" -> 120
          [] k = "not_found" -> 300
          [] k = "unknown" -> 60 ]

\* ERROR_PRIORITIES.get(error_type, ERROR_PRIORITIES['unknown'])
PriorityOf(k) ==
    IF k \in DOMAIN ERROR_PRIORITIES THEN ERROR_PRIORITIES[k]
    ELSE ERROR_PRIORITIES["unknown"]

\* BASE_DELAYS.get(error_type, 60)
BaseDelayOf(k) ==
    IF k \in DOMAIN BASE_DELAYS THEN BASE_DELAYS[k] ELSE DEFAULT_BASE_DELAY

BackoffDelay_uncapped(k, attempt) == BaseDelayOf(k) * 2 ^ (attempt - 1)

\* min(base_delay * 2 ** (attempt - 1), 1800)
BackoffDelay(k, attempt) ==
    Min(BaseDelayOf(k) * 2 ^ (attempt - 1), MAX_RETRY_DELAY)

\* Mutant of RetryItem ordering: next_retry_time is compared first.
ItemLess_time_first(a, b) ==
    \/ a.next_retry_time < b.next_retry_time
    \/ a.next_retry_time = b.next_retry_time /\ a.priority < b.priority

\* RetryItem.__lt__ (dataclass order=True): (priority, next_retry_time)
ItemLess(a, b) ==
    \/ a.priority < b.priority
    \/ a.priority = b.priority /\ a.next_retry_time < b.next_retry_time

\* RetryItem.__eq__: only the fields with compare=True take part
ItemEq(a, b) ==
    a.priority = b.priority /\ a.next_retry_time = b.next_retry_time

\* item in items (list membership by ==)
InList(item, items) == \E i \in 1..Len(items) : ItemEq(items[i], item)

\* heapq._siftdown, on a 1-based array: the parent of position p is p \div 2
RECURSIVE heap_siftdown(_, _, _, _)
heap_siftdown(heap, startpos, pos, newitem) ==
    IF pos > startpos /\ ItemLess(newitem, heap[pos \div 2])
    THEN heap_siftdown([heap EXCEPT ![pos] = heap[pos \div 2]],
                       startpos, pos \div 2, newitem)
    ELSE [heap EXCEPT ![pos] = newitem]

\* the loop of heapq._siftup: the smaller child moves up until a leaf is hit
RECURSIVE heap_bubble(_, _)
heap_bubble(heap, pos) ==
    LET childpos == 2 * pos
        rightpos == childpos + 1
    IN  IF childpos <= Len(heap)
        THEN LET c == IF rightpos <= Len(heap)
                         /\ ~ItemLess(heap[childpos], heap[rightpos])
                      THEN rightpos ELSE childpos
             IN  heap_bubble([heap EXCEPT ![pos] = heap[c]], c)
        ELSE <<heap, pos>>

\* heapq._siftup
heap_siftup(heap, pos) ==
    LET b == heap_bubble(heap, pos)
    IN  heap_siftdown(b[1], pos, b[2], heap[pos])

\* heapq.heappush
heappush(heap, item) ==
    heap_siftdown(Append(heap, item), 1, Len(heap) + 1, item)

\* heapq.heappop on a non-empty heap: <<the heap afterwards, the item>>
heappop(heap) ==
    LET lastelt == heap[Len(heap)]
        rest == SubSeq(heap, 1, Len(heap) - 1)
    IN  IF rest = << >> THEN <<rest, lastelt>>
        ELSE <<heap_siftup([rest EXCEPT ![1] = lastelt], 1), heap[1]>>

\* SmartRetryManager.__init__
NewRetryManager ==
    [ retry_queue |-> << >>,
      urls_in_queue |-> {},
      total_retries |-> 0,
      successful_retries |-> 0,
      failed_retries |-> 0 ]

NewItem(url, error_type, attempt, t) ==
    LET kind == Normalized(error_type)
    IN  [ priority |-> PriorityOf(kind),
          next_retry_time |-> t + BackoffDelay(kind, attempt),
          url |-> url,
          attempt |-> attempt,
          error_type |-> kind,
          first_attempt_time |-> t ]

\* Mutant of add_retry: the attempt limit is off by one (>).
add_retry_off_by_one(m, url, error_type, attempt, t) ==
    IF attempt > MAX_ATTEMPTS
    THEN <<[m EXCEPT !.failed_retries = @ + 1], FALSE>>
    ELSE IF url \in m.urls_in_queue
    THEN <<m, FALSE>>
    ELSE << [m EXCEPT !.retry_queue =
                          heappush(@, NewItem(url, error_type, attempt, t)),
                      !.urls_in_queue = @ \cup {url},
                      !.total_retries = @ + 1],
            TRUE >>

\* Mutant of add_retry: the "already in queue" check is missing.
add_retry_no_dup_check(m, url, error_type, attempt, t) ==
    IF attempt >= MAX_ATTEMPTS
    THEN <<[m EXCEPT !.failed_retries = @ + 1], FALSE>>
    ELSE << [m EXCEPT !.retry_queue =
                          heappush(@, NewItem(url, error_type, attempt, t)),
                      !.urls_in_queue = @ \cup {url},
                      !.total_retries = @ + 1],
            TRUE >>

\* SmartRetryManager.add_retry: <<the manager afterwards, the result>>
add_retry(m, url, error_type, attempt, t) ==
    IF attempt >= MAX_ATTEMPTS
    THEN <<[m EXCEPT !.failed_retries = @ + 1], FALSE>>
    ELSE IF url \in m.urls_in_queue
    THEN <<m, FALSE>>
    ELSE LET item == NewItem(url, error_type, attempt, t)
         IN  << [m EXCEPT !.retry_queue = heappush(@, item),
                          !.urls_in_queue = @ \cup {url},
                          !.total_retries = @ + 1],
                TRUE >>

\* the while loop of get_next_batch: pops until batch_size items are ready,
\* the queue is empty, or the popped item is not ready yet
RECURSIVE batch_loop(_, _, _, _, _, _)
batch_loop(queue, urls, ready, removed, batch_size, t) ==
    IF Len(ready) < batch_size /\ queue # << >>
    THEN LET p == heappop(queue)
             item == p[2]
         IN  IF item.next_retry_time <= t
             THEN batch_loop(p[1], urls \ {item.url}, Append(ready, item),
                             Append(removed, item), batch_size, t)
             ELSE [ queue |-> p[1], urls |-> urls, ready |-> ready,
                    removed |-> Append(removed, item) ]
    ELSE [ queue |-> queue, urls |-> urls, ready |-> ready,
           removed |-> removed ]

\* a variant of the put-back loop that pushes nothing back
push_back_nothing(queue, removed, ready) == queue

\* "for item in temp_removed: if item not in ready_items: heappush(...)"
RECURSIVE push_back(_, _, _)
push_back(queue, removed, ready) ==
    IF removed = << >> THEN queue
    ELSE push_back(IF InList(Head(removed), ready) THEN queue
                   ELSE heappush(queue, Head(removed)),
                   Tail(removed), ready)

\* SmartRetryManager.get_next_batch: <<the manager afterwards, ready_items>>
get_next_batch(m, batch_size, t) ==
    LET l == batch_loop(m.retry_queue, m.urls_in_queue, << >>, << >>,
                        batch_size, t)
    IN  << [m EXCEPT !.retry_queue = push_back(l.queue, l.removed, l.ready),
                     !.urls_in_queue = l.urls],
           l.ready >>

NoRetryCall ==
    [ name |-> "init", url |-> "", attempt |-> 0, error_type |-> << >>,
      kind |-> "", pending |-> FALSE, ret |-> FALSE, released |-> FALSE,
      batch_size |-> 0, ready |-> << >> ]

InitRetry ==
    /\ now = 0
    /\ retry = NewRetryManager
    /\ retry_op = NoRetryCall
    /\ limiter = NewLimiter(300000, 20, 0)
    /\ rate_op = NoCall
    /\ rate_calls = 0
    /\ recorded = << >>
    /\ forced_at = -1
    /\ change_time = 0
    /\ ScraperAtRest
    /\ ProxyAtRest
    /\ ShutdownAtRest
    /\ NetworkAtRest
    /\ WebshareAtRest
    /\ CountersAtRest
    /\ CallersAtRest
    /\ WatchdogAtRest

RetryTick ==
    /\ \E d \in RetryClockSteps :
          /\ now + d <= MaxRetryClock
          /\ now' = now + d
    /\ UNCHANGED <<rateVars, retryVars, scraperVars, proxyVars, shutdownVars, netVars, tailVars>>

\* add_retry(url, error_type, attempt=attempt) at time now
AddRetryCall(url, error_type, attempt, released) ==
    LET res == add_retry(retry, url, error_type, attempt, now) IN
    /\ res[1].total_retries <= MaxTotalRetries
    /\ res[1].failed_retries <= MaxFailedRetries
    /\ retry' = res[1]
    /\ retry_op' = [ name |-> "add_retry", url |-> url, attempt |-> attempt,
                     error_type |-> error_type,
                     kind |-> Normalized(error_type),
                     pending |-> url \in retry.urls_in_queue,
                     ret |-> res[2], released |-> released,
                     batch_size |-> 0, ready |-> << >> ]
    /\ UNCHANGED <<now, rateVars, scraperVars, proxyVars, shutdownVars, netVars, tailVars>>

\* a fetch failed: the caller reports it with the attempt number it chooses
AddRetry ==
    \E url \in RetryUrls, e \in RawErrorTypes, a \in AttemptInputs :
        AddRetryCall(url, e, a, FALSE)

GetNextBatch ==
    \E n \in BatchSizes :
        LET res == get_next_batch(retry, n, now) IN
        /\ retry' = res[1]
        /\ retry_op' = [ NoRetryCall EXCEPT !.name = "get_next_batch",
                                             !.batch_size = n,
                                             !.ready = res[2] ]
        /\ UNCHANGED <<now, rateVars, scraperVars, proxyVars, shutdownVars, netVars, tailVars>>

\* a released entry is attempted again, fails again and re-enters the queue
\* with attempt + 1 ("the scraper should pass the attempt count")
RetryReleasedFails ==
    /\ retry_op.name = "get_next_batch"
    /\ \E i \in 1..Len(retry_op.ready), e \in RawErrorTypes :
          AddRetryCall(retry_op.ready[i].url, e,
                       retry_op.ready[i].attempt + 1, TRUE)

NextRetry ==
    \/ RetryTick
    \/ AddRetry
    \/ GetNextBatch
    \/ RetryReleasedFails

SpecRetry == InitRetry /\ [][NextRetry]_vars

(***************************************************************************)
(* Claims about SmartRetryManager                                          *)
(***************************************************************************)
AddRetryStep == retry_op'.name = "add_retry" /\ now' = now
GetNextBatchStep == retry_op'.name = "get_next_batch" /\ now' = now

QueueItems(m) == { m.retry_queue[i] : i \in 1..Len(m.retry_queue) }
EntriesFor(m, url) ==
    { i \in 1..Len(m.retry_queue) : m.retry_queue[i].url = url }
Eligible(item, t) == item.next_retry_time <= t
ReadyPos(ready, item) == { i \in 1..Len(ready) : ready[i] = item }

\* C5: no pending or released entry has attempt >= MAX_ATTEMPTS, and
\* add_retry with attempt >= MAX_ATTEMPTS returns False, enqueues nothing and
\* increments failed_retries (so an entry released at attempt
\* MAX_ATTEMPTS - 1 and re-inserted with attempt + 1 is abandoned).
C5_AttemptsBounded ==
    /\ [] ( /\ \A item \in QueueItems(retry) : item.attempt < MAX_ATTEMPTS
            /\ \A i \in 1..Len(retry_op.ready) :
                   retry_op.ready[i].attempt < MAX_ATTEMPTS )
    /\ [][ (AddRetryStep /\ retry_op'.attempt >= MAX_ATTEMPTS)
           => /\ ~retry_op'.ret
              /\ retry'.retry_queue = retry.retry_queue
              /\ retry'.urls_in_queue = retry.urls_in_queue
              /\ retry'.failed_retries = retry.failed_retries + 1 ]_vars

\* C5 witness: an entry released at attempt MAX_ATTEMPTS - 1 failed again and
\* its re-insertion with attempt MAX_ATTEMPTS was refused.
C5_Witness ==
    /\ retry_op.name = "add_retry"
    /\ retry_op.released
    /\ retry_op.attempt = MAX_ATTEMPTS
    /\ ~retry_op.ret
    /\ retry.failed_retries = 1
    /\ retry_op.url \notin retry.urls_in_queue

RateLimitNotFoundPairs(m, t) ==
    { p \in QueueItems(m) \X QueueItems(m) :
        /\ p[1].error_type = "rate_limit" /\ Eligible(p[1], t)
        /\ p[2].error_type = "not_found" /\ Eligible(p[2], t) }

BothInOrder(ready, r, n) ==
    \E i \in ReadyPos(ready, r), j \in ReadyPos(ready, n) : i < j
OnlyFirst(ready, m, r, n) ==
    /\ ReadyPos(ready, r) # {}
    /\ ReadyPos(ready, n) = {}
    /\ n \in QueueItems(m)
Neither(ready, m, r, n) ==
    /\ ReadyPos(ready, r) = {} /\ r \in QueueItems(m)
    /\ ReadyPos(ready, n) = {} /\ n \in QueueItems(m)

\* C7 (as claimed): for a rate_limit entry and a not_found entry both
\* eligible at a get_next_batch call, either both are returned with the
\* rate_limit entry first, or the rate_limit entry is returned and the
\* not_found entry stays queued.
C7_RateLimitReleasedFirst ==
    [][ GetNextBatchStep
        => \A p \in RateLimitNotFoundPairs(retry, now) :
              \/ BothInOrder(retry_op'.ready, p[1], p[2])
              \/ OnlyFirst(retry_op'.ready, retry', p[1], p[2]) ]_vars

\* C7 (amended): the not_found entry is never released ahead of the
\* rate_limit entry: both are returned with the rate_limit entry first, or
\* only the rate_limit entry is returned, or neither is returned and both
\* stay queued (the batch was filled by entries ranking ahead of both).
C7_NotFoundNeverAhead ==
    [][ GetNextBatchStep
        => \A p \in RateLimitNotFoundPairs(retry, now) :
              \/ BothInOrder(retry_op'.ready, p[1], p[2])
              \/ OnlyFirst(retry_op'.ready, retry', p[1], p[2])
              \/ Neither(retry_op'.ready, retry', p[1], p[2]) ]_vars

\* C7 witness: a batch holding a rate_limit entry ahead of a not_found entry.
C7_Witness ==
    /\ retry_op.name = "get_next_batch"
    /\ \E i, j \in 1..Len(retry_op.ready) :
          /\ i < j
          /\ retry_op.ready[i].error_type = "rate_limit"
          /\ retry_op.ready[j].error_type = "not_found"

\* C8: get_next_batch(n) returns only eligible entries, at most n, in
\* (priority, next_retry_time) order, and an eligible entry stays queued only
\* when n eligible entries ranking ahead of it were returned.
C8_EligibleNeverBlocked ==
    [][ GetNextBatchStep
        => LET ready == retry_op'.ready
               n == retry_op'.batch_size
           IN  /\ \A i \in 1..Len(ready) : Eligible(ready[i], now)
               /\ Len(ready) <= n
               /\ \A i, j \in 1..Len(ready) :
                      i < j => ~ItemLess(ready[j], ready[i])
               /\ \A item \in QueueItems(retry') :
                      Eligible(item, now)
                      => /\ Len(ready) = n
                         /\ \A i \in 1..Len(ready) :
                                ~ItemLess(item, ready[i]) ]_vars

InitRate ==
    /\ now = 0
    /\ \E s \in InitialSettings : limiter = NewLimiter(s[1], s[2], 0)
    /\ rate_op = NoCall
    /\ rate_calls = 0
    /\ recorded = << >>
    /\ forced_at = -1
    /\ change_time = 0
    /\ retry = NewRetryManager
    /\ retry_op = NoRetryCall
    /\ ScraperAtRest
    /\ ProxyAtRest
    /\ ShutdownAtRest
    /\ NetworkAtRest
    /\ WebshareAtRest
    /\ CountersAtRest
    /\ CallersAtRest
    /\ WatchdogAtRest

RateTick ==
    /\ \E d \in RateClockSteps :
          /\ now + d <= MaxRateClock
          /\ now' = now + d
    /\ UNCHANGED <<rateVars, retryVars, scraperVars, proxyVars, shutdownVars, netVars, tailVars>>

RecordRequestRun ==
    /\ rate_calls < MaxRecordCalls
    /\ \E run \in RecordRuns :
          /\ limiter' = record_requests(limiter, run[1], run[2])
          /\ recorded' = recorded \o [i \in 1..(run[1] + run[2]) |-> i <= run[1]]
    /\ rate_calls' = rate_calls + 1
    /\ rate_op' = [name |-> "record_request", ret |-> FALSE]
    /\ UNCHANGED <<now, change_time, forced_at, retryVars, scraperVars, proxyVars, shutdownVars, netVars, tailVars>>

AdjustRate ==
    LET res == adjust_rate(limiter, now) IN
    /\ limiter' = res[1]
    /\ rate_op' = [name |-> "adjust_rate", ret |-> res[2]]
    /\ change_time' = IF Changed(limiter, res[1]) THEN now ELSE change_time
    /\ UNCHANGED <<now, rate_calls, recorded, forced_at, retryVars, scraperVars, proxyVars, shutdownVars, netVars, tailVars>>

ResetToInitial ==
    /\ limiter' = reset_to_initial(limiter)
    /\ rate_op' = [name |-> "reset_to_initial", ret |-> FALSE]
    /\ UNCHANGED <<now, rate_calls, recorded, forced_at, change_time, retryVars, scraperVars, proxyVars, shutdownVars, netVars, tailVars>>

ForceSlowMode ==
    /\ limiter' = force_slow_mode(limiter, now)
    /\ rate_op' = [name |-> "force_slow_mode", ret |-> FALSE]
    /\ forced_at' = now
    /\ UNCHANGED <<now, rate_calls, recorded, change_time, retryVars, scraperVars, proxyVars, shutdownVars, netVars, tailVars>>

NextRate ==
    \/ RateTick
    \/ RecordRequestRun
    \/ AdjustRate
    \/ ResetToInitial
    \/ ForceSlowMode

SpecRate == InitRate /\ [][NextRate]_vars

(***************************************************************************)
(* Claims about AdaptiveRateLimiter                                        *)
(***************************************************************************)

AdjustRateStep == rate_op'.name = "adjust_rate" /\ now' = now

\* C9: an adjust_rate call that changes current_delay or current_workers
\* comes at least MIN_ADJUSTMENT_INTERVAL after the previous such call (or
\* after construction), whatever was recorded or called in between.
C9_AdjustmentsSpacedByInterval ==
    [][ (AdjustRateStep /\ Changed(limiter, limiter'))
            => now - change_time >= MIN_ADJUSTMENT_INTERVAL ]_vars

\* C9 witness: a second adjustment has just changed the settings.
C9_Witness ==
    /\ rate_op.name = "adjust_rate"
    /\ rate_op.ret
    /\ change_time = now
    /\ limiter.adjustment_count >= 2

SlowEffect(r1, r2) ==
    /\ r2.slowdown_count = r1.slowdown_count + 1
    /\ r2.speedup_count = r1.speedup_count
    /\ r2.current_delay >= r1.current_delay
    /\ r2.current_workers <= r1.current_workers

SpeedEffect(r1, r2) ==
    /\ r2.slowdown_count = r1.slowdown_count
    /\ r2.current_delay <= r1.current_delay
    /\ r2.current_workers >= r1.current_workers

\* C10: with the interval elapsed and at least 10 outcomes in the window,
\* adjust_rate slows down iff the rate is below 0.85, takes the speed-up
\* branch iff the rate is above 0.95, and otherwise returns False leaving
\* the limiter (delay, workers, last_adjustment_time, counters) unchanged.
C10_AdjustRateThreeWay ==
    [][ ( /\ AdjustRateStep
          /\ should_adjust(limiter, now)
          /\ Len(limiter.request_history) >= MIN_SAMPLE )
        => LET rate == <<Successes(limiter.request_history),
                         Len(limiter.request_history)>>
               below == rate[1] * 100 < SLOW_DOWN_THRESHOLD * rate[2]
               above == rate[1] * 100 > SPEED_UP_THRESHOLD * rate[2]
           IN  /\ below <=> (rate_op'.ret /\ SlowEffect(limiter, limiter'))
               /\ above <=> (rate_op'.ret /\ SpeedEffect(limiter, limiter'))
               /\ (~below /\ ~above) <=> ~rate_op'.ret
               /\ ~rate_op'.ret => limiter' = limiter ]_vars

\* C10 witness: 90 successes of 100, interval elapsed, adjust_rate returned
\* False.
C10_Witness ==
    /\ rate_op.name = "adjust_rate"
    /\ ~rate_op.ret
    /\ should_adjust(limiter, now)
    /\ Len(limiter.request_history) = 100
    /\ Successes(limiter.request_history) = 90

\* the newest k of the outcomes xs
Newest(xs, k) == SubSeq(xs, Len(xs) - k + 1, Len(xs))

\* C27: with n outcomes recorded, calculate_success_rate gives no rate
\* when n < 10 and otherwise the successes among the newest min(n, 100)
\* outcomes over min(n, 100).
C27_SuccessRateOverRecentWindow ==
    LET n == Len(recorded)
        k == Min(n, SAMPLE_SIZE)
    IN  /\ n = limiter.total_requests
        /\ limiter.request_history = Newest(recorded, k)
        /\ n < 10 => calculate_success_rate(limiter) = NoRate
        /\ n >= 10 => calculate_success_rate(limiter)
                         = <<Successes(Newest(recorded, k)), k>>

\* C27 witness: 120 outcomes were recorded, 90 successes and 10 failures
\* and then 17 successes and 3 failures; adjust_rate has computed the rate
\* over the newest 100, 87 successes.
C27_Witness ==
    /\ rate_op.name = "adjust_rate"
    /\ now - limiter.last_adjustment_time >= MIN_ADJUSTMENT_INTERVAL
    /\ Len(recorded) = 120
    /\ Successes(recorded) = 107
    /\ calculate_success_rate(limiter) = <<87, 100>>

\* A step that is a call of force_slow_mode.
ForceSlowModeStep == rate_op'.name = "force_slow_mode" /\ now' = now

\* C28: force_slow_mode sets current_delay to MAX_DELAY, current_workers to
\* MIN_WORKER_COUNT and last_adjustment_time to the time of the call and
\* changes nothing else of the limiter; an adjust_rate call less than
\* MIN_ADJUSTMENT_INTERVAL after a force_slow_mode call returns False and
\* changes nothing.
C28_ForceSlowModeEffect ==
    /\ [][ ForceSlowModeStep
            => limiter' = [limiter EXCEPT !.current_delay = MAX_DELAY,
                                          !.current_workers = MIN_WORKER_COUNT,
                                          !.last_adjustment_time = now] ]_vars
    /\ [][ ( /\ AdjustRateStep
              /\ forced_at # -1
              /\ now - forced_at < MIN_ADJUSTMENT_INTERVAL )
            => (limiter' = limiter /\ ~rate_op'.ret) ]_vars

\* C28 witness: force_slow_mode was called at 300 s on a limiter never
\* adjusted, whose window holds at least 10 outcomes with a rate below
\* 0.85; adjust_rate, called 150 s later, returned False.
C28_Witness ==
    /\ rate_op.name = "adjust_rate"
    /\ ~rate_op.ret
    /\ forced_at = 300
    /\ now = 450
    /\ limiter.last_adjustment_time = 300
    /\ limiter.current_delay = MAX_DELAY
    /\ limiter.current_workers = MIN_WORKER_COUNT
    /\ limiter.initial_workers = 20
    /\ limiter.adjustment_count = 0
    /\ Len(limiter.request_history) >= MIN_SAMPLE
    /\ RateBelow(calculate_success_rate(limiter), SLOW_DOWN_THRESHOLD)

\* C26 (the claim as stated): every speed-up applied by adjust_rate while
\* current_workers is below int(initial_workers x 1.5) leaves
\* current_workers strictly larger than before.
C26_SpeedUpIncreasesWorkers ==
    [][ ( /\ AdjustRateStep
          /\ limiter'.speedup_count = limiter.speedup_count + 1
          /\ limiter.current_workers < max_workers(limiter) )
        => limiter'.current_workers > limiter.current_workers ]_vars

\* C11: an adjust_rate call made with the interval elapsed and a success
\* rate below 0.85 over at least 10 outcomes sets current_delay to
\* min(current_delay x 1.25, MAX_DELAY), current_workers to
\* max(floor(current_workers x 0.90), MIN_WORKER_COUNT), adds one to
\* slowdown_count and to adjustment_count and leaves speedup_count alone.
C11_SlowDownEffect ==
    [][ ( /\ AdjustRateStep
          /\ should_adjust(limiter, now)
          /\ Len(limiter.request_history) >= MIN_SAMPLE
          /\ Successes(limiter.request_history) * 100
                 < 85 * Len(limiter.request_history) )
        => /\ limiter'.current_delay
                 = Min((limiter.current_delay * 5) \div 4, MAX_DELAY)
           /\ limiter'.current_workers
                 = Max((limiter.current_workers * 9) \div 10, MIN_WORKER_COUNT)
           /\ limiter'.slowdown_count = limiter.slowdown_count + 1
           /\ limiter'.adjustment_count = limiter.adjustment_count + 1
           /\ limiter'.speedup_count = limiter.speedup_count ]_vars

\* C11 witness: 70 successes of 100 with the interval elapsed took 0.3 s and
\* 20 workers to 0.375 s and 18 workers, with one slow-down counted.
C11_Witness ==
    /\ rate_op.name = "adjust_rate"
    /\ rate_op.ret
    /\ Len(limiter.request_history) = 100
    /\ Successes(limiter.request_history) = 70
    /\ limiter.initial_delay = 300000
    /\ limiter.current_delay = 375000
    /\ limiter.current_workers = 18
    /\ limiter.slowdown_count = 1
    /\ limiter.adjustment_count = 1
    /\ limiter.speedup_count = 0

(***************************************************************************)
(* RotatingResidentialScraper: main(), the worker threads and the crash    *)
(* and restart of the process.                                             *)
(***************************************************************************)
InitScraper ==
    /\ now = 0
    /\ limiter = NewLimiter(300000, 20, 0)
    /\ rate_op = NoCall
    /\ rate_calls = 0
    /\ recorded = << >>
    /\ forced_at = -1
    /\ change_time = 0
    /\ retry = NewRetryManager
    /\ retry_op = NoRetryCall
    /\ \E file \in InitialFiles :
          /\ disk = file
          /\ hist = NewHist(file)
    /\ scraper = NewScraper
    /\ lock = 0
    /\ \E resume \in BOOLEAN : main = NewMain(resume)
    /\ pool = NewPool
    /\ crashes = 0
    /\ ProxyAtRest
    /\ ShutdownAtRest
    /\ NetworkAtRest
    /\ WebshareAtRest
    /\ CountersAtRest
    /\ CallersAtRest
    /\ WatchdogAtRest

otherVars == <<now, rateVars, retryVars, proxyVars, shutdownVars, netVars, tailVars>>

\* main(): if args.resume: scraper.load_checkpoint()
MainLoad ==
    /\ main.pc = "start"
    /\ main' = [main EXCEPT !.pc = "loaded"]
    /\ IF main.resume
       THEN /\ scraper' = load_checkpoint(scraper, disk)[1]
            /\ hist' = [hist EXCEPT !.ckpt_at_load = FileUrls(disk)]
       ELSE UNCHANGED <<scraper, hist>>
    /\ UNCHANGED <<disk, lock, pool, crashes, otherVars>>

\* scrape_urls(): the filter of the input and the return when nothing is left
MainFilter ==
    /\ main.pc = "loaded"
    /\ LET todo == urls_to_scrape(main.urls, scraper)
       IN  main' = [main EXCEPT !.todo = todo,
                                !.pc = IF Len(todo) = 0 THEN "save_results"
                                       ELSE "submitting"]
    /\ UNCHANGED <<disk, scraper, lock, pool, crashes, hist, otherVars>>

\* scrape_urls(): one turn of the loop of executor.submit(self.scrape_url, url)
MainSubmit ==
    /\ main.pc = "submitting"
    /\ LET n == main.submitted + 1
       IN  /\ pool' = [pool EXCEPT !.queue = Append(@, main.todo[n])]
           /\ main' = [main EXCEPT !.submitted = n,
                                   !.pc = IF n = Len(main.todo) THEN "waiting"
                                          ELSE "submitting"]
    /\ UNCHANGED <<disk, scraper, lock, crashes, hist, otherVars>>

\* scrape_urls(): as_completed(futures) has given every future
MainJoin ==
    /\ main.pc = "waiting"
    /\ pool.queue = << >>
    /\ \A w \in 1..NumWorkers : pool.workers[w].pc = "idle"
    /\ main' = [main EXCEPT !.pc = "save_results"]
    /\ UNCHANGED <<disk, scraper, lock, pool, crashes, hist, otherVars>>

\* main(): scraper.save_results(), which writes the timestamped result files
MainSaveResults ==
    /\ main.pc = "save_results"
    /\ main' = [main EXCEPT !.pc = "done"]
    /\ UNCHANGED <<disk, scraper, lock, pool, crashes, hist, otherVars>>

\* a worker thread takes the next queued call; scrape_url() returns at once for a
\* URL in scraped_urls, otherwise scrape_product() starts
WorkerTake(w) ==
    /\ pool.workers[w].pc = "idle"
    /\ pool.queue # << >>
    /\ LET url == Head(pool.queue)
       IN  pool' = [pool EXCEPT
                       !.queue = Tail(@),
                       !.workers[w] = IF url \in scraper.scraped_urls
                                      THEN IdleWorker
                                      ELSE [pc |-> "fetching", url |-> url]]
    /\ UNCHANGED <<disk, scraper, lock, main, crashes, hist, otherVars>>

\* scrape_url(): scrape_product() has returned a product; 'with self.lock:'
\* stores it, and the lock is kept if a checkpoint is due
WorkerStoreProduct(w) ==
    /\ pool.workers[w].pc = "fetching"
    /\ lock = 0
    /\ scraper' = store_product(scraper, pool.workers[w].url)
    /\ IF checkpoint_due(scraper')
       THEN /\ lock' = w
            /\ pool' = [pool EXCEPT !.workers[w].pc = "save_open"]
       ELSE /\ lock' = 0
            /\ pool' = [pool EXCEPT !.workers[w] = IdleWorker]
    /\ UNCHANGED <<disk, main, crashes, hist, otherVars>>

\* scrape_url(): scrape_product() has returned no product
WorkerStoreFailure(w) ==
    /\ pool.workers[w].pc = "fetching"
    /\ lock = 0
    /\ scraper' = store_failure(scraper, pool.workers[w].url)
    /\ pool' = [pool EXCEPT !.workers[w] = IdleWorker]
    /\ UNCHANGED <<disk, lock, main, crashes, hist, otherVars>>

\* save_checkpoint(): open(checkpoint_json, 'w')
SaveOpen(w) ==
    /\ pool.workers[w].pc = "save_open"
    /\ lock = w
    /\ disk' = open_for_writing(disk)
    /\ hist' = [hist EXCEPT !.writing = scraper.products]
    /\ pool' = [pool EXCEPT !.workers[w].pc = "save_dump"]
    /\ UNCHANGED <<scraper, lock, main, crashes, otherVars>>

\* save_checkpoint(): json.dump, the close of the file, the return to
\* scrape_url() and the release of the lock
SaveDump(w) ==
    /\ pool.workers[w].pc = "save_dump"
    /\ lock = w
    /\ disk' = json_dump(disk, scraper.products)
    /\ hist' = [hist EXCEPT !.good = scraper.products]
    /\ lock' = 0
    /\ pool' = [pool EXCEPT !.workers[w] = IdleWorker]
    /\ UNCHANGED <<scraper, main, crashes, otherVars>>

\* the process dies at any point before main() returns; the watchdog
\* launches it again with --resume.  What was in memory is gone, the
\* checkpoint file stays as it was left.
CrashAndRestart ==
    /\ main.pc # "done"
    /\ crashes < MaxCrashes
    /\ crashes' = crashes + 1
    /\ hist' = [hist EXCEPT !.lost = scraper.scraped_urls \ FileUrls(disk),
                            !.ckpt_at_load = {},
                            !.terminal = @ \cup TerminalUrls(scraper)]
    /\ scraper' = NewScraper
    /\ lock' = 0
    /\ pool' = NewPool
    /\ main' = NewMain(TRUE)
    /\ UNCHANGED <<disk, otherVars>>

NextScraper ==
    \/ MainLoad
    \/ MainFilter
    \/ MainSubmit
    \/ MainJoin
    \/ MainSaveResults
    \/ \E w \in 1..NumWorkers : WorkerTake(w)
    \/ \E w \in 1..NumWorkers : WorkerStoreProduct(w)
    \/ \E w \in 1..NumWorkers : WorkerStoreFailure(w)
    \/ \E w \in 1..NumWorkers : SaveOpen(w)
    \/ \E w \in 1..NumWorkers : SaveDump(w)
    \/ CrashAndRestart

SpecScraper == InitScraper /\ [][NextScraper]_vars

\* the URLs submitted to the worker pool in this run
Dispatched == { main.todo[i] : i \in 1..main.submitted }

\* scrape_urls() has submitted everything it is going to submit
SubmissionComplete == main.pc \in {"waiting", "save_results", "done"}

\* C2: after load_checkpoint, once scrape_urls has submitted its URLs, the
\* set of URLs submitted to the pool is the set of input URLs minus the set
\* of URLs of the checkpoint file that was loaded.
C2_DispatchesInputMinusCheckpoint ==
    (main.resume /\ SubmissionComplete)
        => Dispatched = Range(main.urls) \ hist.ckpt_at_load

\* C2 witness: a checkpoint holding some of the input URLs was loaded and
\* exactly the remaining input URLs were submitted.
C2_Witness ==
    /\ main.resume
    /\ SubmissionComplete
    /\ hist.ckpt_at_load \cap Range(main.urls) # {}
    /\ Dispatched # {}
    /\ Dispatched = Range(main.urls) \ hist.ckpt_at_load

\* C3: in a run started with --resume after a crash, once scrape_urls has
\* submitted its URLs, every input URL is in the checkpoint that was loaded
\* or has been submitted again; in particular the URLs scraped before the
\* crash whose product never reached the checkpoint file are submitted again.
C3_AtLeastOnceResume ==
    (crashes > 0 /\ SubmissionComplete)
        => /\ \A u \in Range(main.urls) :
                 u \in hist.ckpt_at_load \/ u \in Dispatched
           /\ (hist.lost \cap Range(main.urls)) \subseteq Dispatched

\* C3 witness: the crash came after an input URL was scraped and before any
\* checkpoint held it, and the restarted run has submitted that URL again.
C3_Witness ==
    /\ crashes > 0
    /\ SubmissionComplete
    /\ hist.lost \cap Range(main.urls) # {}
    /\ hist.ckpt_at_load # {}
    /\ (hist.lost \cap Range(main.urls)) \subseteq Dispatched

\* C23 (the claim as stated): no worker holds scraper.lock while it is in
\* the file writes of save_checkpoint, so that a worker whose scrape_product
\* has returned can always take the lock to store its outcome.
C23_NoLockHeldDuringIO ==
    \A w \in 1..NumWorkers :
        pool.workers[w].pc \in {"save_open", "save_dump"} => lock # w

\* C20 (the claim as stated): in a run restarted with --resume, every input
\* URL that had reached a terminal outcome before the restart, a stored
\* product or a stored failure, is in the checkpoint file that is loaded
\* and is not submitted again.
C20_TerminalTasksNotRedispatched ==
    (crashes > 0 /\ SubmissionComplete)
        => \A u \in hist.terminal \cap Range(main.urls) :
              /\ u \in hist.ckpt_at_load
              /\ u \notin Dispatched

\* C4 (the claim as stated): after a crash, the load_checkpoint of the
\* restarted run obtains the URLs of a complete checkpoint, the last one
\* written in full or the one that was being written.
C4_LoadObtainsCompleteCheckpoint ==
    (crashes > 0 /\ main.resume /\ main.pc = "loaded")
        => scraper.scraped_urls \in
              { product_urls(hist.good), product_urls(hist.writing) }

(***************************************************************************)
(* ProxyManager: the calls made on it.                                     *)
(***************************************************************************)
InitProxy ==
    /\ now = 0
    /\ limiter = NewLimiter(300000, 20, 0)
    /\ rate_op = NoCall
    /\ rate_calls = 0
    /\ recorded = << >>
    /\ forced_at = -1
    /\ change_time = 0
    /\ retry = NewRetryManager
    /\ retry_op = NoRetryCall
    /\ ScraperAtRest
    /\ ProxyAtRest
    /\ ShutdownAtRest
    /\ NetworkAtRest
    /\ WebshareAtRest
    /\ CountersAtRest
    /\ CallersAtRest
    /\ WatchdogAtRest

nonProxyVars == <<now, rateVars, retryVars, scraperVars, shutdownVars, netVars, tailVars>>

\* fetch_proxies(): self.proxies = all_proxies
FetchProxies ==
    /\ proxy_manager' = [proxy_manager EXCEPT !.proxies = FetchedProxies]
    /\ proxy_op' = [NoProxyCall EXCEPT !.name = "fetch_proxies"]
    /\ UNCHANGED nonProxyVars

\* validate_proxies(): self.working_proxies = working
ValidateProxies ==
    /\ proxy_manager.proxies # << >>
    /\ \E working \in WorkingLists :
          proxy_manager' = [proxy_manager EXCEPT !.working_proxies = working]
    /\ proxy_op' = [NoProxyCall EXCEPT !.name = "validate_proxies"]
    /\ UNCHANGED nonProxyVars

GetNextProxy ==
    /\ proxy_manager.current_index <= MaxProxyIndex
    /\ LET res == get_next_proxy(proxy_manager)
       IN  /\ proxy_manager' = res[1]
           /\ proxy_op' = [name |-> "get_next_proxy", arg |-> NoProxy,
                           ret |-> res[2]]
    /\ UNCHANGED nonProxyVars

GetRandomProxy ==
    /\ LET res == get_random_proxy(proxy_manager)
       IN  /\ proxy_manager' = res[1]
           /\ IF res[2] = << >>
              THEN proxy_op' = [NoProxyCall EXCEPT !.name = "get_random_proxy"]
              ELSE \E i \in DOMAIN res[2] :
                      proxy_op' = [name |-> "get_random_proxy",
                                   arg |-> NoProxy, ret |-> res[2][i]]
    /\ UNCHANGED nonProxyVars

\* mark_proxy_failed(proxy) for a proxy that selection can have returned
MarkProxyFailed ==
    /\ \E p \in Range(proxy_manager.proxies) \cup {NoProxy} :
          /\ proxy_manager' = mark_proxy_failed(proxy_manager, p)
          /\ proxy_op' = [name |-> "mark_proxy_failed", arg |-> p,
                          ret |-> NoProxy]
    /\ UNCHANGED nonProxyVars

MarkProxySuccess ==
    /\ \E p \in Range(proxy_manager.proxies) \cup {NoProxy} :
          /\ proxy_manager' = mark_proxy_success(proxy_manager, p)
          /\ proxy_op' = [name |-> "mark_proxy_success", arg |-> p,
                          ret |-> NoProxy]
    /\ UNCHANGED nonProxyVars

NextProxy ==
    \/ FetchProxies
    \/ ValidateProxies
    \/ GetNextProxy
    \/ GetRandomProxy
    \/ MarkProxyFailed
    \/ MarkProxySuccess

SpecProxy == InitProxy /\ [][NextProxy]_vars

\* a step that is a call of get_next_proxy or of get_random_proxy
SelectionStep ==
    proxy_op'.name \in {"get_next_proxy", "get_random_proxy"}

PoolAddresses(pm) == { p.address : p \in Range(selection_pool(pm)) }

\* every endpoint of the selection pool is marked failed
AllQuarantined(pm) ==
    /\ selection_pool(pm) # << >>
    /\ PoolAddresses(pm) \subseteq pm.failed_proxies

\* C12 (the claim as stated): a selection made when every endpoint of the
\* selection pool is marked failed clears failed_proxies and returns an
\* endpoint that is not marked failed.
C12_SelectionClearsFullQuarantine ==
    [][ (SelectionStep /\ AllQuarantined(proxy_manager))
        => /\ proxy_manager'.failed_proxies = {}
           /\ proxy_op'.ret # NoProxy
           /\ proxy_op'.ret.address \notin proxy_manager'.failed_proxies ]_vars

\* C13: a selection made when some endpoint of the selection pool is not
\* marked failed returns an endpoint of the pool that is not marked failed.
C13_SelectionSkipsQuarantined ==
    [][ ( /\ SelectionStep
          /\ selection_pool(proxy_manager) # << >>
          /\ ~(PoolAddresses(proxy_manager) \subseteq proxy_manager.failed_proxies) )
        => /\ proxy_op'.ret.address \in PoolAddresses(proxy_manager)
           /\ proxy_op'.ret.address \notin proxy_manager.failed_proxies ]_vars

\* C13 witness: get_next_proxy has returned a proxy_manager that is not marked
\* failed after stepping over a failed one, the pool holding both kinds.
C13_Witness ==
    /\ proxy_op.name = "get_next_proxy"
    /\ proxy_manager.failed_proxies \cap PoolAddresses(proxy_manager) # {}
    /\ proxy_op.ret.address \in PoolAddresses(proxy_manager)
    /\ proxy_op.ret.address \notin proxy_manager.failed_proxies
    /\ Len(selection_pool(proxy_manager)) >= 2
    /\ proxy_manager.current_index >= 2
    /\ pool_at(selection_pool(proxy_manager),
               proxy_manager.current_index - 2).address
          \in proxy_manager.failed_proxies

(***************************************************************************)
(* GracefulShutdown on a running RotatingResidentialScraper: the scraper   *)
(* steps of a live process, the signals and the shutdown thread.           *)
(***************************************************************************)
InitShutdown ==
    /\ now = 0
    /\ limiter = NewLimiter(300000, 20, 0)
    /\ rate_op = NoCall
    /\ rate_calls = 0
    /\ recorded = << >>
    /\ forced_at = -1
    /\ change_time = 0
    /\ retry = NewRetryManager
    /\ retry_op = NoRetryCall
    /\ \E file \in InitialFiles :
          /\ disk = file
          /\ hist = NewHist(file)
    /\ scraper = NewScraper
    /\ lock = 0
    /\ \E resume \in BOOLEAN : main = NewMain(resume)
    /\ pool = NewPool
    /\ crashes = 0
    /\ ProxyAtRest
    /\ ShutdownAtRest
    /\ NetworkAtRest
    /\ WebshareAtRest
    /\ CountersAtRest
    /\ CallersAtRest
    /\ WatchdogAtRest

\* main() and scrape_urls() go on while the process is alive and no
\* SystemExit is propagating in the main thread
MainRuns ==
    /\ process.alive
    /\ process.exiting = -1
    /\ \/ MainLoad
       \/ MainFilter
       \/ MainSubmit
       \/ MainJoin
       \/ MainSaveResults

\* the worker threads go on while the process is alive
WorkersRun ==
    /\ process.alive
    /\ \E w \in 1..NumWorkers :
          \/ WorkerTake(w)
          \/ WorkerStoreProduct(w)
          \/ WorkerStoreFailure(w)
          \/ SaveOpen(w)
          \/ SaveDump(w)

\* main() returns: the process ends with exit code 0
MainReturns ==
    /\ process.alive
    /\ process.exiting = -1
    /\ main.pc = "done"
    /\ process' = [process EXCEPT !.alive = FALSE, !.exit_code = EXIT_GRACEFUL]
    /\ UNCHANGED <<now, rateVars, retryVars, scraperVars, proxyVars, netVars, tailVars,
                   shutdown>>

\* sys.exit(code) raised in the main thread: inside the 'with
\* ThreadPoolExecutor' block the exit of the block waits for the submitted
\* calls first, elsewhere the process ends at once
InsideExecutorBlock == main.pc \in {"submitting", "waiting"}

\* _signal_handler(), run in the main thread
Signal ==
    /\ process.alive
    /\ shutdown.signals < MaxSignals
    /\ IF shutdown.force_shutdown
       THEN \* _force_exit(): save_checkpoint(), then sys.exit(1)
            /\ shutdown' = [shutdown EXCEPT !.signals = @ + 1]
            /\ disk' = IF hasattr_scraper("save_checkpoint")
                       THEN json_dump(disk, scraper.products) ELSE disk
            /\ hist' = IF hasattr_scraper("save_checkpoint")
                       THEN [hist EXCEPT !.good = scraper.products,
                                         !.writing = scraper.products]
                       ELSE hist
            /\ process' = IF InsideExecutorBlock
                          THEN [process EXCEPT !.exiting = EXIT_FORCED]
                          ELSE [process EXCEPT !.alive = FALSE,
                                               !.exit_code = EXIT_FORCED]
       ELSE IF shutdown.shutdown_requested
       THEN /\ shutdown' = [shutdown EXCEPT !.signals = @ + 1,
                                            !.force_shutdown = TRUE]
            /\ UNCHANGED <<disk, hist, process>>
       ELSE /\ shutdown' = [shutdown EXCEPT !.signals = @ + 1,
                                            !.shutdown_requested = TRUE,
                                            !.thread = "stop_new_work"]
            /\ UNCHANGED <<disk, hist, process>>
    /\ UNCHANGED <<now, rateVars, retryVars, proxyVars, netVars, tailVars,
                   scraper, lock, main, pool, crashes>>

\* the 'with ThreadPoolExecutor' block has waited for every submitted call
\* and the SystemExit ends the process
ExecutorBlockExits ==
    /\ process.alive
    /\ process.exiting # -1
    /\ pool.queue = << >>
    /\ \A w \in 1..NumWorkers : pool.workers[w].pc = "idle"
    /\ process' = [process EXCEPT !.alive = FALSE,
                                    !.exit_code = process.exiting]
    /\ UNCHANGED <<now, rateVars, retryVars, scraperVars, proxyVars, netVars, tailVars,
                   shutdown>>

\* _perform_shutdown() step 1, _stop_new_work(): the scraper has neither
\* should_stop nor stop_workers, nothing is set
StopNewWork ==
    /\ process.alive
    /\ shutdown.thread = "stop_new_work"
    /\ ~hasattr_scraper("should_stop")
    /\ ~hasattr_scraper("stop_workers")
    /\ shutdown' = [shutdown EXCEPT !.thread = "wait",
                                    !.steps = Append(@, "stop_new_work")]
    /\ UNCHANGED <<now, rateVars, retryVars, scraperVars, proxyVars, netVars, tailVars,
                   process>>

\* a variant of step 2 in which a forced wait abandons the sequence: with
\* force_shutdown set the thread goes from the wait straight to sys.exit
WaitForActiveRequests_force_skips_save ==
    /\ process.alive
    /\ shutdown.thread = "wait"
    /\ shutdown' = [shutdown EXCEPT
            !.thread = IF shutdown.force_shutdown THEN "exit"
                       ELSE "save_checkpoint",
            !.steps = Append(@, "wait")]
    /\ UNCHANGED <<now, rateVars, retryVars, scraperVars, proxyVars, netVars,
                   tailVars, process>>

\* step 2, _wait_for_active_requests(): the loop ends in the turn where
\* force_shutdown is set or the active count is 0
WaitForActiveRequests ==
    /\ process.alive
    /\ shutdown.thread = "wait"
    /\ \/ shutdown.force_shutdown
       \/ get_active_request_count(ActiveFetches(pool)) = 0
    /\ shutdown' = [shutdown EXCEPT !.thread = "save_checkpoint",
                                    !.steps = Append(@, "wait")]
    /\ UNCHANGED <<now, rateVars, retryVars, scraperVars, proxyVars, netVars, tailVars,
                   process>>

\* step 3, _save_checkpoint(): scraper.save_checkpoint(), whose exception,
\* if it raises one, is caught and logged
ShutdownSaveCheckpoint ==
    /\ process.alive
    /\ shutdown.thread = "save_checkpoint"
    /\ hasattr_scraper("save_checkpoint")
    /\ \E outcome \in SaveOutcomes :
          /\ disk' = checkpoint_after(disk, scraper.products, outcome)
          /\ hist' = IF outcome = "saved"
                     THEN [hist EXCEPT !.good = scraper.products,
                                       !.writing = scraper.products]
                     ELSE IF outcome = "dump_raised"
                     THEN [hist EXCEPT !.writing = scraper.products]
                     ELSE hist
          /\ shutdown' = [shutdown EXCEPT
                !.thread = "save_partial_results",
                !.steps = Append(@, "save_checkpoint"),
                !.raised = IF outcome = "saved" THEN @
                           ELSE @ \cup {"save_checkpoint"}]
    /\ UNCHANGED <<now, rateVars, retryVars, proxyVars, netVars, tailVars, process,
                   scraper, lock, main, pool, crashes>>

\* step 4, _save_partial_results(): save_results() writes the timestamped
\* result files or raises; the scraper has no export_to_csv
SavePartialResults ==
    /\ process.alive
    /\ shutdown.thread = "save_partial_results"
    /\ hasattr_scraper("save_results")
    /\ \E raises \in BOOLEAN :
          shutdown' = [shutdown EXCEPT
                !.thread = "notify",
                !.steps = Append(@, "save_partial_results"),
                !.raised = IF raises THEN @ \cup {"save_partial_results"}
                           ELSE @]
    /\ UNCHANGED <<now, rateVars, retryVars, scraperVars, proxyVars, netVars, tailVars,
                   process>>

\* step 5, _send_notification(): no notifier is set
SendNotification ==
    /\ process.alive
    /\ shutdown.thread = "notify"
    /\ shutdown' = [shutdown EXCEPT !.thread = "cleanup",
                                    !.steps = Append(@, "notify")]
    /\ UNCHANGED <<now, rateVars, retryVars, scraperVars, proxyVars, netVars, tailVars,
                   process>>

\* step 6, _final_cleanup(): the scraper has no executor and no close
FinalCleanup ==
    /\ process.alive
    /\ shutdown.thread = "cleanup"
    /\ ~hasattr_scraper("executor")
    /\ ~hasattr_scraper("close")
    /\ shutdown' = [shutdown EXCEPT !.thread = "exit",
                                    !.steps = Append(@, "cleanup")]
    /\ UNCHANGED <<now, rateVars, retryVars, scraperVars, proxyVars, netVars, tailVars,
                   process>>

\* sys.exit(0) at the end of _perform_shutdown(): it runs in the shutdown
\* thread, where SystemExit ends that thread only
ShutdownThreadExits ==
    /\ process.alive
    /\ shutdown.thread = "exit"
    /\ shutdown' = [shutdown EXCEPT !.thread = "done",
                                    !.steps = Append(@, "exit")]
    /\ UNCHANGED <<now, rateVars, retryVars, scraperVars, proxyVars, netVars, tailVars,
                   process>>

NextShutdown ==
    \/ MainRuns
    \/ WorkersRun
    \/ MainReturns
    \/ Signal
    \/ ExecutorBlockExits
    \/ StopNewWork
    \/ WaitForActiveRequests
    \/ ShutdownSaveCheckpoint
    \/ SavePartialResults
    \/ SendNotification
    \/ FinalCleanup
    \/ ShutdownThreadExits

SpecShutdown == InitShutdown /\ [][NextShutdown]_vars

\* a step that is the handling of one more signal
SignalStep == shutdown'.signals = shutdown.signals + 1

\* the shutdown sequence has been started and has not ended
ShutdownInProgress == shutdown.thread \notin {"none", "done"}

\* C14 (the claim as stated): when the shutdown sequence started by a
\* termination signal has ended, the process has exited with exit code 0
\* and the checkpoint file holds exactly the products completed.
C14_GracefulShutdownExitsWithCheckpoint ==
    shutdown.thread = "done"
        => /\ ~process.alive
           /\ process.exit_code = EXIT_GRACEFUL
           /\ disk = CompleteFile(scraper.products)

\* C15 (the claim as stated): a signal handled while the shutdown sequence
\* is in progress ends the process at once.
C15_SecondSignalForcesExit ==
    [][ (SignalStep /\ ShutdownInProgress) => ~process'.alive ]_vars

\* C16 (the claim as stated): once a termination signal has been handled,
\* scrape_urls submits no further URL to the pool, and no step takes a
\* fetch away from a worker that is running it.
C16_NoDispatchAfterSignal ==
    [][ (shutdown.shutdown_requested /\ process.alive)
        => /\ main'.submitted = main.submitted
           /\ \A w \in 1..NumWorkers :
                 (pool.workers[w].pc = "fetching" /\ process'.alive)
                    => \/ pool'.workers[w] = pool.workers[w]
                       \/ scraper' # scraper ]_vars

InitNetwork ==
    /\ now = 0
    /\ limiter = NewLimiter(300000, 20, 0)
    /\ rate_op = NoCall
    /\ rate_calls = 0
    /\ recorded = << >>
    /\ forced_at = -1
    /\ change_time = 0
    /\ retry = NewRetryManager
    /\ retry_op = NoRetryCall
    /\ disk = NoFile
    /\ hist = NewHist(NoFile)
    /\ scraper = NewScraper
    /\ lock = 0
    /\ main = NewMain(FALSE)
    /\ pool = NewPool
    /\ crashes = 0
    /\ ProxyAtRest
    /\ ShutdownAtRest
    /\ NetworkAtRest
    /\ WebshareAtRest
    /\ CountersAtRest
    /\ CallersAtRest
    /\ WatchdogAtRest

nonNetVars ==
    <<rateVars, retryVars, scraperVars, proxyVars, shutdownVars, tailVars>>

NetTick ==
    /\ \E d \in NetClockSteps :
          /\ now + d <= MaxNetClock
          /\ now' = now + d
    /\ UNCHANGED <<nonNetVars, net, net_op>>

\* handle_connection_error(error), called by a thread while no thread is
\* inside _wait_for_network_recovery
HandleConnectionError ==
    /\ ~net.waiting
    /\ net_op.calls < MaxMonitorCalls
    /\ LET res == handle_connection_error(net, now)
       IN  /\ net' = res[1]
           /\ net_op' = [name |-> "handle_connection_error", ret |-> res[2],
                         calls |-> net_op.calls + 1]
    /\ UNCHANGED <<now, nonNetVars>>

\* one turn of the loop of _wait_for_network_recovery
WaitForNetworkRecovery ==
    /\ net.waiting
    /\ \E reachable \in BOOLEAN :
          LET res == wait_for_network_recovery(net, now, reachable)
              calls == IF res[2] = "waiting" THEN net_op.calls + 1
                       ELSE net_op.calls
          IN  /\ res[3] <= MaxNetClock
              /\ calls <= MaxMonitorCalls
              /\ net' = res[1]
              /\ net_op' = [name |-> "wait_for_network_recovery",
                            ret |-> res[2], calls |-> calls]
              /\ now' = res[3]
    /\ UNCHANGED nonNetVars

PeriodicCheck ==
    /\ \E reachable \in BOOLEAN :
          net' = periodic_check(net, now, reachable)
    /\ net_op' = [net_op EXCEPT !.name = "periodic_check", !.ret = "None"]
    /\ UNCHANGED <<now, nonNetVars>>

\* reset_failure_counter()
ResetFailureCounter ==
    /\ net' = [net EXCEPT !.consecutive_failures = 0]
    /\ net_op' = [net_op EXCEPT !.name = "reset_failure_counter",
                                !.ret = "None"]
    /\ UNCHANGED <<now, nonNetVars>>

NextNetwork ==
    \/ NetTick
    \/ HandleConnectionError
    \/ WaitForNetworkRecovery
    \/ PeriodicCheck
    \/ ResetFailureCounter

\* the monitor alone
SpecNetwork == InitNetwork /\ [][NextNetwork]_vars

\* the monitor, called on connection errors, next to the running scraper
NextNetworkEngine ==
    \/ HandleConnectionError
    \/ WaitForNetworkRecovery
    \/ MainRuns
    \/ WorkersRun

SpecNetworkEngine == InitNetwork /\ [][NextNetworkEngine]_vars

(***************************************************************************)
(* _wait_for_network_recovery run to its return: the thread that called    *)
(* handle_connection_error stays in the loop, turn after turn, and no      *)
(* other call is made on the monitor while it waits.                       *)
(***************************************************************************)
\* time passes before the outage, early enough for a whole outage to fit
\* below MaxNetClock
RecoveryTick ==
    /\ ~net.waiting
    /\ \E d \in NetClockSteps :
          /\ now + d + MAX_OUTAGE_DURATION + 2 * CHECK_INTERVAL <= MaxNetClock
          /\ now' = now + d
    /\ UNCHANGED <<nonNetVars, net, net_op>>

\* one turn of the loop of _wait_for_network_recovery: the check of the
\* outage duration, the probe, and time.sleep(check_interval) or the return
RecoveryTurn ==
    /\ net.waiting
    /\ \E reachable \in BOOLEAN :
          LET res == wait_for_network_recovery(net, now, reachable)
          IN  /\ res[3] <= MaxNetClock
              /\ net' = res[1]
              /\ net_op' = [net_op EXCEPT !.name = "wait_for_network_recovery",
                                          !.ret = res[2]]
              /\ now' = res[3]
    /\ UNCHANGED nonNetVars

NextRecovery ==
    \/ RecoveryTick
    \/ HandleConnectionError
    \/ RecoveryTurn

\* the waiting thread keeps running: sleep returns and the probe times out
SpecRecovery ==
    InitNetwork /\ [][NextRecovery]_vars /\ WF_vars(RecoveryTurn)

\* C25: a call of _wait_for_network_recovery returns.  It returns True
\* with is_connected true, consecutive_failures 0 and outage_start_time
\* cleared; it returns False only when the outage has lasted more than
\* MAX_OUTAGE_DURATION; and it goes on waiting only after a probe that
\* failed, for check_interval seconds.
C25_RecoveryWaitTerminates ==
    /\ [] ( (net_op.name = "wait_for_network_recovery" /\ net_op.ret = "True")
              => /\ ~net.waiting
                 /\ net.is_connected
                 /\ net.consecutive_failures = 0
                 /\ net.outage_start_time = None )
    /\ [] ( (net_op.name = "wait_for_network_recovery" /\ net_op.ret = "False")
              => /\ ~net.waiting
                 /\ ~net.is_connected
                 /\ net.outage_start_time # None
                 /\ now - net.outage_start_time > MAX_OUTAGE_DURATION )
    /\ [][ (net.waiting /\ net'.waiting)
              => /\ net'.consecutive_failures = net.consecutive_failures + 1
                 /\ now - net.outage_start_time <= MAX_OUTAGE_DURATION
                 /\ now' = now + CHECK_INTERVAL ]_vars
    /\ (net.waiting ~> ~net.waiting)

\* C25 witness: the wait has returned False after an outage of more than
\* 3600 s in which every probe failed.
C25_Witness ==
    /\ net_op.name = "wait_for_network_recovery"
    /\ net_op.ret = "False"
    /\ ~net.waiting
    /\ now - net.outage_start_time > MAX_OUTAGE_DURATION
    /\ net.consecutive_failures > MAX_OUTAGE_DURATION \div CHECK_INTERVAL

\* C17 (the claim as stated): a step that takes the monitor from ONLINE to
\* OFFLINE leaves at least failure_threshold consecutive failures counted,
\* and a handle_connection_error call that counts fewer returns True and
\* leaves is_connected alone.
C17_OfflineOnlyAfterThreshold ==
    [][ /\ (net.is_connected /\ ~net'.is_connected)
            => net'.consecutive_failures >= FAILURE_THRESHOLD
        /\ ( /\ ~net.waiting
             /\ net_op'.name = "handle_connection_error"
             /\ net_op'.calls = net_op.calls + 1
             /\ net'.consecutive_failures < FAILURE_THRESHOLD )
            => /\ net_op'.ret = "True"
               /\ net'.is_connected = net.is_connected
               /\ ~net'.waiting ]_vars

\* C18 (the claim as stated): while the monitor is OFFLINE no URL is
\* submitted to the pool and no worker starts a fetch.
C18_NoDispatchWhileOffline ==
    [][ ~is_network_available(net)
        => /\ main'.submitted = main.submitted
           /\ \A w \in 1..NumWorkers :
                 pool.workers[w].pc = "idle"
                    => pool'.workers[w].pc = "idle" ]_vars

(***************************************************************************)
(* SmartRetryManager.add_retry as a function of its arguments: up to two   *)
(* insertions, of any kind and attempt, into an empty queue.               *)
(***************************************************************************)
InitBackoff ==
    /\ now \in {0} \cup RetryClockSteps
    /\ retry = NewRetryManager
    /\ retry_op = NoRetryCall
    /\ limiter = NewLimiter(300000, 20, 0)
    /\ rate_op = NoCall
    /\ rate_calls = 0
    /\ recorded = << >>
    /\ forced_at = -1
    /\ change_time = 0
    /\ ScraperAtRest
    /\ ProxyAtRest
    /\ ShutdownAtRest
    /\ NetworkAtRest
    /\ WebshareAtRest
    /\ CountersAtRest
    /\ CallersAtRest
    /\ WatchdogAtRest

\* add_retry for a first URL, then for a second one
BackoffAddRetry ==
    /\ retry.total_retries < 2
    /\ \E e \in BackoffErrorTypes, a \in 1..(MAX_ATTEMPTS - 1) :
          AddRetryCall(IF retry.total_retries = 0 THEN "u1" ELSE "u2",
                       e, a, FALSE)

NextBackoff == BackoffAddRetry

SpecBackoff == InitBackoff /\ [][NextBackoff]_vars

\* the delay an entry was scheduled with
ScheduledDelay(item) == item.next_retry_time - item.first_attempt_time

\* C19: every entry add_retry has put in the queue is scheduled at its
\* insertion time plus min(BASE_DELAYS[kind] x 2^(attempt-1), 1800 s) for
\* its kind and attempt, with a delay of at most 1800 s, and of two entries
\* of the same kind the one with the larger attempt has no shorter delay.
C19_BackoffSchedule ==
    /\ \A item \in QueueItems(retry) :
          LET doubled == BASE_DELAYS[item.error_type] * 2 ^ (item.attempt - 1)
          IN  /\ item.attempt \in 1..(MAX_ATTEMPTS - 1)
              /\ ScheduledDelay(item)
                    = (IF doubled < 1800 THEN doubled ELSE 1800)
              /\ ScheduledDelay(item) <= 1800
    /\ \A i1, i2 \in QueueItems(retry) :
          (i1.error_type = i2.error_type /\ i1.attempt <= i2.attempt)
             => ScheduledDelay(i1) <= ScheduledDelay(i2)

\* C19 witness: a not_found entry at attempt 4 is scheduled with the capped
\* delay of 1800 s and one at attempt 2 with 600 s.
C19_Witness ==
    /\ retry_op.name = "add_retry"
    /\ \E i1, i2 \in QueueItems(retry) :
          /\ i1.error_type = "not_found" /\ i1.attempt = 4
          /\ ScheduledDelay(i1) = 1800
          /\ i2.error_type = "not_found" /\ i2.attempt = 2
          /\ ScheduledDelay(i2) = 600
    /\ { item.error_type : item \in QueueItems(retry) } = {"not_found"}

(***************************************************************************)
(* WebshareProxyManager.validate_proxies                                    *)
(***************************************************************************)
InitWebshare ==
    /\ now = 0
    /\ limiter = NewLimiter(300000, 20, 0)
    /\ rate_op = NoCall
    /\ rate_calls = 0
    /\ recorded = << >>
    /\ forced_at = -1
    /\ change_time = 0
    /\ retry = NewRetryManager
    /\ retry_op = NoRetryCall
    /\ ScraperAtRest
    /\ ProxyAtRest
    /\ ShutdownAtRest
    /\ NetworkAtRest
    /\ WebshareAtRest
    /\ CountersAtRest
    /\ CallersAtRest
    /\ WatchdogAtRest

engineVars ==
    <<now, rateVars, retryVars, scraperVars, proxyVars, shutdownVars, netVars>>

\* validate_proxies(test_count) is called and reaches its first probe
ValidateProxiesCall ==
    /\ validation.pc = "fetched"
    /\ \E test_count \in 1..MaxTestCount :
          validation' = [validation EXCEPT !.test_count = test_count,
                                           !.pc = "probing",
                                           !.index = 1]
    /\ UNCHANGED <<engineVars, counterVars, callerVars, watchdogVars>>

\* one test_proxy call of validate_proxies and what follows it up to the
\* next test_proxy call or the return
TestProxy ==
    /\ validation.pc = "probing"
    /\ \E ok \in BOOLEAN : validation' = probe(validation, ok)
    /\ UNCHANGED <<engineVars, counterVars, callerVars, watchdogVars>>

NextWebshare ==
    \/ ValidateProxiesCall
    \/ TestProxy

SpecWebshare == InitWebshare /\ [][NextWebshare]_vars

\* C21 (the claim as stated): every proxy in working_proxies succeeded in
\* more than half of the test_count probes made of it.
C21_PromotedOnlyWithMajority ==
    \A i \in 1..Len(validation.tested) :
        validation.all_proxies[i] \in Range(validation.working_proxies)
            => 2 * validation.tested[i] > validation.test_count

(***************************************************************************)
(* Worker threads updating the shared counters.  Each action is one thread *)
(* running up to its next read or write of a shared counter; the           *)
(* failed_proxies updates of ProxyManager (see SpecProxy) and the append   *)
(* to request_history are left out: the first happen under the lock, the   *)
(* second is a single deque.append.                                        *)
(***************************************************************************)
InitCounters == InitWebshare

otherThanCounters == <<engineVars, webshareVars, callerVars, watchdogVars>>

\* thread t is at position pc of a call whose name is in names
At(t, pc, names) ==
    /\ threads[t].pc = pc
    /\ threads[t].call.name \in names

WebshareMarks == {"webshare.mark_proxy_success", "webshare.mark_proxy_failed"}
LockedMarks == {"mark_proxy_success", "mark_proxy_failed"}

\* a worker thread enters mark_proxy_success, mark_proxy_failed or
\* record_request
ThreadCall(t) ==
    /\ threads[t].pc = "idle"
    /\ counters.calls < MaxCounterCalls
    /\ \E call \in CounterCalls :
          /\ threads' = [threads EXCEPT ![t] =
                [ pc |-> IF call.name \in WebshareMarks THEN "read_stat"
                         ELSE IF call.name \in LockedMarks THEN "acquire"
                         ELSE "read_total",
                  call |-> call, read |-> 0 ]]
          /\ counters' =
                IF call.name \in WebshareMarks
                THEN [counters EXCEPT !.calls = @ + 1,
                                      !.webshare_calls[call.proxy] = @ + 1]
                ELSE IF call.name \in LockedMarks
                THEN [counters EXCEPT !.calls = @ + 1,
                                      !.proxy_calls[call.proxy] = @ + 1]
                ELSE [counters EXCEPT !.calls = @ + 1,
                                      !.record_calls = @ + 1]
    /\ UNCHANGED otherThanCounters

\* WebshareProxyManager: the read of "self.proxy_stats[id][key] += 1"
WebshareRead(t) ==
    /\ At(t, "read_stat", WebshareMarks)
    /\ LET call == threads[t].call
       IN  threads' = [threads EXCEPT
               ![t].read = counters.webshare_stats[call.proxy][stat_key(call)],
               ![t].pc = "write_stat"]
    /\ UNCHANGED <<counters, otherThanCounters>>

\* WebshareProxyManager: the write of "self.proxy_stats[id][key] += 1"
WebshareWrite(t) ==
    /\ At(t, "write_stat", WebshareMarks)
    /\ LET call == threads[t].call
       IN  counters' = [counters EXCEPT
               !.webshare_stats[call.proxy][stat_key(call)] = threads[t].read + 1]
    /\ threads' = [threads EXCEPT ![t] = IdleThread]
    /\ UNCHANGED otherThanCounters

\* ProxyManager: "with self.lock" is entered
LockAcquire(t) ==
    /\ At(t, "acquire", LockedMarks)
    /\ counters.proxy_lock = 0
    /\ counters' = [counters EXCEPT !.proxy_lock = t]
    /\ threads' = [threads EXCEPT ![t].pc = "read_stat"]
    /\ UNCHANGED otherThanCounters

\* ProxyManager: the read of "self.proxy_stats[address][key] += 1"
LockedRead(t) ==
    /\ At(t, "read_stat", LockedMarks)
    /\ LET call == threads[t].call
       IN  threads' = [threads EXCEPT
               ![t].read = counters.proxy_stats[call.proxy][stat_key(call)],
               ![t].pc = "write_stat"]
    /\ UNCHANGED <<counters, otherThanCounters>>

\* ProxyManager: the write of "+= 1" and the exit of "with self.lock"
LockedWrite(t) ==
    /\ At(t, "write_stat", LockedMarks)
    /\ LET call == threads[t].call
       IN  counters' = [counters EXCEPT
               !.proxy_stats[call.proxy][stat_key(call)] = threads[t].read + 1,
               !.proxy_lock = 0]
    /\ threads' = [threads EXCEPT ![t] = IdleThread]
    /\ UNCHANGED otherThanCounters

\* record_request: the read of "self.total_requests += 1"
RecordReadTotal(t) ==
    /\ At(t, "read_total", {"record_request"})
    /\ threads' = [threads EXCEPT ![t].read = counters.total_requests,
                                  ![t].pc = "write_total"]
    /\ UNCHANGED <<counters, otherThanCounters>>

\* record_request: the write of "self.total_requests += 1"
RecordWriteTotal(t) ==
    /\ At(t, "write_total", {"record_request"})
    /\ counters' = [counters EXCEPT !.total_requests = threads[t].read + 1]
    /\ threads' = [threads EXCEPT ![t].pc = "read_outcome"]
    /\ UNCHANGED otherThanCounters

\* record_request: the read of "self.successful_requests += 1" or of
\* "self.failed_requests += 1"
RecordReadOutcome(t) ==
    /\ At(t, "read_outcome", {"record_request"})
    /\ threads' = [threads EXCEPT
            ![t].read = counters[outcome_counter(threads[t].call)],
            ![t].pc = "write_outcome"]
    /\ UNCHANGED <<counters, otherThanCounters>>

\* record_request: the write of that "+= 1", and the return
RecordWriteOutcome(t) ==
    /\ At(t, "write_outcome", {"record_request"})
    /\ counters' = [counters EXCEPT
            ![outcome_counter(threads[t].call)] = threads[t].read + 1]
    /\ threads' = [threads EXCEPT ![t] = IdleThread]
    /\ UNCHANGED otherThanCounters

NextCounters ==
    \E t \in Threads :
        \/ ThreadCall(t)
        \/ WebshareRead(t)
        \/ WebshareWrite(t)
        \/ LockAcquire(t)
        \/ LockedRead(t)
        \/ LockedWrite(t)
        \/ RecordReadTotal(t)
        \/ RecordWriteTotal(t)
        \/ RecordReadOutcome(t)
        \/ RecordWriteOutcome(t)

SpecCounters == InitCounters /\ [][NextCounters]_vars

AllThreadsIdle == \A t \in Threads : threads[t].pc = "idle"

\* C22 (the claim as stated): when no call is running, success + failed of
\* every endpoint equals the number of mark_proxy_success and
\* mark_proxy_failed calls made for it, in WebshareProxyManager and in
\* ProxyManager, and total_requests = successful_requests + failed_requests
\* = the number of record_request calls.
C22_NoLostCounterUpdate ==
    AllThreadsIdle =>
        /\ \A p \in Endpoints :
              counters.webshare_stats[p].success
                + counters.webshare_stats[p].failed = counters.webshare_calls[p]
        /\ \A p \in Endpoints :
              counters.proxy_stats[p].success
                + counters.proxy_stats[p].failed = counters.proxy_calls[p]
        /\ counters.total_requests
              = counters.successful_requests + counters.failed_requests
        /\ counters.total_requests = counters.record_calls

(***************************************************************************)
(* add_retry called with the keys of ERROR_PRIORITIES as error_type        *)
(***************************************************************************)
\* add_retry for a first URL, then for a second one
PriorityAddRetry ==
    /\ retry.total_retries < 2
    /\ \E e \in CanonicalErrorTypes, a \in 1..(MAX_ATTEMPTS - 1) :
          AddRetryCall(IF retry.total_retries = 0 THEN "u1" ELSE "u2",
                       e, a, FALSE)

NextPriority == PriorityAddRetry

SpecPriority == InitBackoff /\ [][NextPriority]_vars

\* C29 (the claim as stated): an add_retry call whose error_type argument
\* is a key k of ERROR_PRIORITIES and that returns True has put in the
\* queue an entry for its URL with error_type k and priority
\* ERROR_PRIORITIES[k]; rate_limit has the smallest and not_found the
\* largest priority number of all keys.
C29_PriorityFollowsErrorKind ==
    /\ (retry_op.name = "add_retry" /\ retry_op.ret)
          => \E item \in QueueItems(retry) :
                /\ item.url = retry_op.url
                /\ item.error_type = NameOf(retry_op.error_type)
                /\ item.priority = ERROR_PRIORITIES[NameOf(retry_op.error_type)]
    /\ \A k \in ErrorKinds \ {"rate_limit"} :
          ERROR_PRIORITIES["rate_limit"] < ERROR_PRIORITIES[k]
    /\ \A k \in ErrorKinds \ {"not_found"} :
          ERROR_PRIORITIES[k] < ERROR_PRIORITIES["not_found"]

(***************************************************************************)
(* add_retry called with any attempt number, also with MAX_ATTEMPTS for a  *)
(* URL that was reported before                                            *)
(***************************************************************************)
\* a fetch failed: the caller reports it with an attempt number up to
\* MAX_ATTEMPTS
AddRetryAnyAttempt ==
    \E url \in RetryUrls, e \in RawErrorTypes,
       a \in {1, MAX_ATTEMPTS} :
        AddRetryCall(url, e, a, FALSE)

NextAbandon ==
    \/ RetryTick
    \/ AddRetryAnyAttempt
    \/ GetNextBatch
    \/ RetryReleasedFails

SpecAbandon == InitRetry /\ [][NextAbandon]_vars

\* an add_retry call that gives the URL up: attempt >= MAX_ATTEMPTS, result
\* False, one more in failed_retries
AbandonStep ==
    /\ AddRetryStep
    /\ retry_op'.attempt >= MAX_ATTEMPTS
    /\ ~retry_op'.ret
    /\ retry'.failed_retries = retry.failed_retries + 1

\* C30 (the claim as stated): when add_retry has given a URL up, no entry
\* for that URL is pending, in retry_queue or in urls_in_queue, so that
\* get_next_batch has nothing of it left to release.
C30_AbandonedUrlNotPending ==
    [][ AbandonStep
        => /\ retry_op'.url \notin retry'.urls_in_queue
           /\ EntriesFor(retry', retry_op'.url) = {} ]_vars

(***************************************************************************)
(* ProxyManager with a fetched list of more than five proxies, as the      *)
(* free-proxy sources give.                                                *)
(***************************************************************************)
ManyProxies == 6       \* proxies given by fetch_proxies in SpecQuarantine

\* fetch_proxies(): self.proxies = all_proxies
FetchManyProxies ==
    /\ proxy_manager.proxies = << >>
    /\ proxy_manager' =
          [proxy_manager EXCEPT !.proxies = [i \in 1..ManyProxies |-> Proxy(i)]]
    /\ proxy_op' = [NoProxyCall EXCEPT !.name = "fetch_proxies"]
    /\ UNCHANGED nonProxyVars

NextQuarantine ==
    \/ FetchManyProxies
    \/ GetNextProxy
    \/ GetRandomProxy
    \/ MarkProxyFailed
    \/ MarkProxySuccess

SpecQuarantine == InitProxy /\ [][NextQuarantine]_vars

\* C31 (the claim as stated): the endpoint given to mark_proxy_failed is in
\* failed_proxies when the call returns, unless every endpoint of the
\* selection pool is then marked failed; the quarantine is not cleared while
\* an endpoint of the pool is not marked failed.
C31_QuarantineKeptUntilAllFailed ==
    [][ (proxy_op'.name = "mark_proxy_failed" /\ proxy_op'.arg # NoProxy)
        => \/ proxy_op'.arg.address \in proxy_manager'.failed_proxies
           \/ PoolAddresses(proxy_manager)
                 \subseteq (proxy_manager.failed_proxies
                               \cup {proxy_op'.arg.address}) ]_vars

\* C32 (the claim as stated): an adjust_rate call that returns True has
\* changed current_delay or current_workers, added one to adjustment_count
\* and set last_adjustment_time to now; a call that returns False has
\* changed none of them.
C32_TrueExactlyWhenAdjusted ==
    [][ AdjustRateStep
        => IF rate_op'.ret
           THEN /\ Changed(limiter, limiter')
                /\ limiter'.adjustment_count = limiter.adjustment_count + 1
                /\ limiter'.last_adjustment_time = now
           ELSE /\ ~Changed(limiter, limiter')
                /\ limiter'.adjustment_count = limiter.adjustment_count
                /\ limiter'.last_adjustment_time
                      = limiter.last_adjustment_time ]_vars

(***************************************************************************)
(* SmartRetryManager with remove_url and clear_queue among its calls       *)
(***************************************************************************)
\* heapq.heapify: _siftup at the positions n \div 2 down to 1
RECURSIVE heapify_from(_, _)
heapify_from(x, pos) ==
    IF pos < 1 THEN x ELSE heapify_from(heap_siftup(x, pos), pos - 1)

heapify(x) == heapify_from(x, Len(x) \div 2)

\* SmartRetryManager.clear_queue
clear_queue(m) == [m EXCEPT !.retry_queue = << >>, !.urls_in_queue = {}]

\* a variant of remove_url that leaves the URL in urls_in_queue
remove_url_keeps_set(m, url) ==
    IF url \notin m.urls_in_queue THEN <<m, FALSE>>
    ELSE << [m EXCEPT !.retry_queue =
                          heapify(SelectSeq(@, LAMBDA item : item.url # url))],
            TRUE >>

\* SmartRetryManager.remove_url: <<the manager afterwards, the result>>
remove_url(m, url) ==
    IF url \notin m.urls_in_queue THEN <<m, FALSE>>
    ELSE << [m EXCEPT !.retry_queue =
                          heapify(SelectSeq(@, LAMBDA item : item.url # url)),
                      !.urls_in_queue = @ \ {url}],
            TRUE >>

RemoveUrl ==
    \E url \in RetryUrls :
        LET res == remove_url(retry, url) IN
        /\ retry' = res[1]
        /\ retry_op' = [ NoRetryCall EXCEPT !.name = "remove_url",
                                             !.url = url,
                                             !.pending = url \in retry.urls_in_queue,
                                             !.ret = res[2] ]
        /\ UNCHANGED <<now, rateVars, scraperVars, proxyVars, shutdownVars,
                       netVars, tailVars>>

ClearQueue ==
    /\ retry' = clear_queue(retry)
    /\ retry_op' = [NoRetryCall EXCEPT !.name = "clear_queue"]
    /\ UNCHANGED <<now, rateVars, scraperVars, proxyVars, shutdownVars,
                   netVars, tailVars>>

NextQueue ==
    \/ RetryTick
    \/ AddRetry
    \/ GetNextBatch
    \/ RetryReleasedFails
    \/ RemoveUrl
    \/ ClearQueue

SpecQueue == InitRetry /\ [][NextQueue]_vars

\* get_queue_size()
get_queue_size(m) == Len(m.retry_queue)

\* C33: urls_in_queue is the set of URLs of the entries of retry_queue, no
\* URL has two entries, and get_queue_size is the number of pending URLs.
C33_UrlSetMatchesQueue ==
    /\ retry.urls_in_queue = { item.url : item \in QueueItems(retry) }
    /\ \A url \in RetryUrls : Cardinality(EntriesFor(retry, url)) <= 1
    /\ get_queue_size(retry) = Cardinality(retry.urls_in_queue)

\* C33 witness: remove_url has taken one URL out of a queue of three
\* entries, leaving the two others.
C33_Witness ==
    /\ retry_op.name = "remove_url"
    /\ retry_op.ret
    /\ retry_op.url \notin retry.urls_in_queue
    /\ EntriesFor(retry, retry_op.url) = {}
    /\ Len(retry.retry_queue) = 2
    /\ retry.total_retries = 3

\* the number of positions of the list that hold the entry
Count(item, items) == Cardinality({ i \in 1..Len(items) : items[i] = item })

\* C34: get_next_batch neither loses nor duplicates entries: each entry is
\* as often in the queue before the call as in the returned list and the
\* queue after it taken together, all fields included.
C34_BatchKeepsEntries ==
    [][ GetNextBatchStep
        => \A item \in QueueItems(retry) \cup QueueItems(retry')
                          \cup Range(retry_op'.ready) :
               Count(item, retry.retry_queue)
                  = Count(item, retry_op'.ready)
                       + Count(item, retry'.retry_queue) ]_vars

\* C34 witness: get_next_batch(10) has returned an eligible entry, and an
\* entry that it inspected and found not yet eligible is pending again.
C34_Witness ==
    /\ retry_op.name = "get_next_batch"
    /\ retry_op.batch_size = 10
    /\ Len(retry_op.ready) >= 1
    /\ Len(retry.retry_queue) >= 1
    /\ \A item \in QueueItems(retry) : ~Eligible(item, now)

(***************************************************************************)
(* One run of RotatingResidentialScraper on a URL file that has a URL on   *)
(* two lines: main() reads the lines as they are.                          *)
(***************************************************************************)
\* the URL file with its first URL repeated
RepeatedInput == <<InputUrls[1]>> \o InputUrls

InitRepeated ==
    /\ now = 0
    /\ limiter = NewLimiter(300000, 20, 0)
    /\ rate_op = NoCall
    /\ rate_calls = 0
    /\ recorded = << >>
    /\ forced_at = -1
    /\ change_time = 0
    /\ retry = NewRetryManager
    /\ retry_op = NoRetryCall
    /\ \E file \in InitialFiles :
          /\ disk = file
          /\ hist = NewHist(file)
    /\ scraper = NewScraper
    /\ lock = 0
    /\ \E resume \in BOOLEAN :
          main = [NewMain(resume) EXCEPT !.urls = RepeatedInput]
    /\ pool = NewPool
    /\ crashes = 0
    /\ ProxyAtRest
    /\ ShutdownAtRest
    /\ NetworkAtRest
    /\ WebshareAtRest
    /\ CountersAtRest
    /\ CallersAtRest
    /\ WatchdogAtRest

NextRepeated ==
    \/ MainLoad
    \/ MainFilter
    \/ MainSubmit
    \/ MainJoin
    \/ MainSaveResults
    \/ \E w \in 1..NumWorkers : WorkerTake(w)
    \/ \E w \in 1..NumWorkers : WorkerStoreProduct(w)
    \/ \E w \in 1..NumWorkers : WorkerStoreFailure(w)
    \/ \E w \in 1..NumWorkers : SaveOpen(w)
    \/ \E w \in 1..NumWorkers : SaveDump(w)

SpecRepeated == InitRepeated /\ [][NextRepeated]_vars

\* C35 (the claim as stated): products holds at most one entry per URL.
C35_OneProductPerUrl ==
    \A i, j \in DOMAIN scraper.products :
        scraper.products[i].url = scraper.products[j].url => i = j

\* C36 (the claim as stated): when main() has returned after scrape_urls and
\* save_results, the checkpoint file holds every URL scraped successfully,
\* and a run with --resume on the same input, which loads that file and
\* filters the input with it, dispatches none of them.
C36_CheckpointCompleteAfterRun ==
    main.pc = "done"
        => /\ scraper.scraped_urls \subseteq FileUrls(disk)
           /\ Range(urls_to_scrape(main.urls,
                                   load_checkpoint(NewScraper, disk)[1]))
                 \cap scraper.scraped_urls = {}

(***************************************************************************)
(* NetworkMonitor called by several worker threads at once, next to the    *)
(* periodic_check of the main loop.  The counting of a failure, each       *)
(* assignment of _handle_network_outage and each turn of the waiting loop  *)
(* is one step; net.waiting is not used, the position of each thread is    *)
(* in callers.                                                             *)
(***************************************************************************)
\* bounds of the model of concurrent callers
MaxCallerClock == 900  \* largest value of time.time()
MaxCallerProbes == 1   \* failed turns of the loop of
                       \* _wait_for_network_recovery

nonCallerVars ==
    <<rateVars, retryVars, scraperVars, proxyVars, shutdownVars,
      webshareVars, counterVars, watchdogVars, net_op>>

\* time passes by the period of periodic_check
CallerTick ==
    /\ now + PERIODIC_CHECK_INTERVAL <= MaxCallerClock
    /\ now' = now + PERIODIC_CHECK_INTERVAL
    /\ UNCHANGED <<nonCallerVars, net, callers, monitor_log>>

\* handle_connection_error(): "self.consecutive_failures += 1" and the
\* comparison with failure_threshold
CallerCounts(t) ==
    /\ callers[t] = "idle"
    /\ monitor_log.calls < MaxMonitorCalls
    /\ net' = [net EXCEPT !.consecutive_failures = @ + 1]
    /\ callers' = [callers EXCEPT ![t] =
                      IF net'.consecutive_failures >= FAILURE_THRESHOLD
                      THEN "test_connected" ELSE "idle"]
    /\ monitor_log' = [monitor_log EXCEPT !.calls = @ + 1]
    /\ UNCHANGED <<now, nonCallerVars>>

\* "if self.is_connected:"
CallerTestsConnected(t) ==
    /\ callers[t] = "test_connected"
    /\ callers' = [callers EXCEPT ![t] = IF net.is_connected
                                         THEN "outage_flag"
                                         ELSE "give_up_check"]
    /\ UNCHANGED <<now, nonCallerVars, net, monitor_log>>

\* _handle_network_outage(): "self.is_connected = False"
CallerSetsOffline(t) ==
    /\ callers[t] = "outage_flag"
    /\ net' = [net EXCEPT !.is_connected = FALSE]
    /\ callers' = [callers EXCEPT ![t] = "outage_time"]
    /\ monitor_log' = [monitor_log EXCEPT
                          !.outages = IF net.is_connected THEN @ + 1 ELSE @]
    /\ UNCHANGED <<now, nonCallerVars>>

\* _handle_network_outage(): "self.outage_start_time = time.time()", the
\* log lines and the alert
CallerSetsOutageTime(t) ==
    /\ callers[t] = "outage_time"
    /\ net' = [net EXCEPT !.outage_start_time = now]
    /\ callers' = [callers EXCEPT ![t] = "give_up_check"]
    /\ monitor_log' = [monitor_log EXCEPT !.alerts = @ + 1]
    /\ UNCHANGED <<now, nonCallerVars>>

\* "if self.outage_start_time: ... return False", else the entry into
\* _wait_for_network_recovery()
CallerChecksDuration(t) ==
    /\ callers[t] = "give_up_check"
    /\ callers' = [callers EXCEPT ![t] = IF outage_too_long(net, now)
                                         THEN "idle" ELSE "waiting"]
    /\ UNCHANGED <<now, nonCallerVars, net, monitor_log>>

\* one turn of the loop of _wait_for_network_recovery()
CallerWaits(t) ==
    /\ callers[t] = "waiting"
    /\ \E reachable \in BOOLEAN :
          LET res == wait_for_network_recovery(net, now, reachable)
              probes == IF res[2] = "waiting" THEN monitor_log.probes + 1
                        ELSE monitor_log.probes
          IN  /\ res[3] <= MaxCallerClock
              /\ probes <= MaxCallerProbes
              /\ net' = res[1]
              /\ now' = res[3]
              /\ monitor_log' = [monitor_log EXCEPT !.probes = probes]
              /\ callers' = [callers EXCEPT ![t] = IF res[2] = "waiting"
                                                   THEN "waiting" ELSE "idle"]
    /\ UNCHANGED nonCallerVars

\* periodic_check(), called from the main loop
CallerPeriodicCheck ==
    /\ now - net.last_check_time >= PERIODIC_CHECK_INTERVAL
    /\ \E reachable \in BOOLEAN :
          net' = periodic_check(net, now, reachable)
    /\ monitor_log' =
          IF net.is_connected /\ ~net'.is_connected
          THEN [monitor_log EXCEPT !.alerts = @ + 1, !.outages = @ + 1]
          ELSE monitor_log
    /\ UNCHANGED <<now, nonCallerVars, callers>>

NextCallers ==
    \/ CallerTick
    \/ \E t \in Threads : CallerCounts(t)
    \/ \E t \in Threads : CallerTestsConnected(t)
    \/ \E t \in Threads : CallerSetsOffline(t)
    \/ \E t \in Threads : CallerSetsOutageTime(t)
    \/ \E t \in Threads : CallerChecksDuration(t)
    \/ \E t \in Threads : CallerWaits(t)
    \/ CallerPeriodicCheck

SpecCallers == InitNetwork /\ [][NextCallers]_vars

\* C37 (the claim as stated): is_connected is False exactly when
\* outage_start_time is set, in every state in which no thread is between
\* the two assignments of _handle_network_outage.
C37_OfflineIffOutageTimeSet ==
    (\A t \in Threads : callers[t] # "outage_time")
        => (~net.is_connected <=> net.outage_start_time # None)

\* C38 (the claim as stated): no more outage alerts are sent than the
\* monitor went from ONLINE to OFFLINE, and outage_start_time is not
\* written again while the monitor stays OFFLINE.
C38_OneAlertPerOutage ==
    /\ [] (monitor_log.alerts <= monitor_log.outages)
    /\ [][ ( /\ ~net.is_connected
             /\ ~net'.is_connected
             /\ net.outage_start_time # None )
           => net'.outage_start_time = net.outage_start_time ]_vars

(***************************************************************************)
(* ScraperWatchdog.start(): the loop, the scraper process it launches and  *)
(* waits for, handle_crash with its sleeps, and the signal handler, which  *)
(* runs between any two steps of the loop.                                 *)
(***************************************************************************)
\* bounds of the watchdog model
MaxWatchdogClock == 6000   \* largest value of time.time()
MaxLaunchFailures == 1     \* launch_scraper calls that return None

\* how long a scraper runs before it exits by itself
ChildLifetimes == {0, RESTART_WINDOW}

\* deque(maxlen=20).append
restart_times_append(times, t) ==
    IF Len(times) = RESTART_TIMES_MAXLEN THEN Append(Tail(times), t)
    ELSE Append(times, t)

\* [t for t in self.restart_times if time.time() - t < 3600]
recent_restarts(times, t) ==
    SelectSeq(times, LAMBDA x : t - x < RESTART_WINDOW)

\* handle_crash() up to its first sleep or to "return False"; with
\* should_restart False start() leaves its loop
handle_crash(w, t) ==
    LET w1 == [w EXCEPT !.restart_count = @ + 1,
                        !.restart_times = restart_times_append(@, t)]
    IN  IF Len(recent_restarts(w1.restart_times, t)) > MAX_RESTARTS_PER_HOUR
        THEN [w1 EXCEPT !.pc = "rate_sleep"]
        ELSE IF w1.restart_count > MAX_TOTAL_RESTARTS
        THEN [w1 EXCEPT !.should_restart = FALSE, !.pc = "stopped"]
        ELSE [w1 EXCEPT !.pc = "delay_sleep"]

\* _signal_handler(): terminate() ends a running scraper
signal_handler(w) ==
    [w EXCEPT !.should_stop = TRUE,
              !.child.terminated = IF w.process = "child" /\ w.child.alive
                                   THEN TRUE ELSE @]

nonWatchdogVars ==
    <<rateVars, retryVars, scraperVars, proxyVars, shutdownVars, netVars,
      webshareVars, counterVars, callerVars>>

\* "while not self.should_stop:"
LoopTest ==
    /\ watchdog.pc = "loop_test"
    /\ watchdog' = [watchdog EXCEPT !.pc = IF watchdog.should_stop
                                           THEN "stopped" ELSE "launch"]
    /\ UNCHANGED <<now, nonWatchdogVars>>

\* self.process = self.launch_scraper(), Popen having started the scraper
LaunchScraper ==
    /\ watchdog.pc = "launch"
    /\ watchdog' = [watchdog EXCEPT
                       !.process = "child",
                       !.child = [alive |-> TRUE, terminated |-> FALSE],
                       !.launches = @ + 1,
                       !.pc = "wait"]
    /\ UNCHANGED <<now, nonWatchdogVars>>

\* self.process = self.launch_scraper(), Popen having raised: None, the
\* sleep of RESTART_DELAY_SECONDS and "continue"
LaunchFails ==
    /\ watchdog.pc = "launch"
    /\ watchdog.launch_failures < MaxLaunchFailures
    /\ now + RESTART_DELAY_SECONDS <= MaxWatchdogClock
    /\ now' = now + RESTART_DELAY_SECONDS
    /\ watchdog' = [watchdog EXCEPT !.process = "none",
                                    !.launch_failures = @ + 1,
                                    !.pc = "loop_test"]
    /\ UNCHANGED nonWatchdogVars

\* the scraper process ends: at once when terminate() was called on it,
\* else after one of ChildLifetimes
ChildExits ==
    /\ watchdog.child.alive
    /\ \E d \in ChildLifetimes :
          /\ watchdog.child.terminated => d = 0
          /\ now + d <= MaxWatchdogClock
          /\ now' = now + d
    /\ watchdog' = [watchdog EXCEPT !.child.alive = FALSE]
    /\ UNCHANGED nonWatchdogVars

\* self.process.wait() returns; "if self.should_stop: break"
WaitReturns ==
    /\ watchdog.pc = "wait"
    /\ ~watchdog.child.alive
    /\ watchdog' = [watchdog EXCEPT !.pc = IF watchdog.should_stop
                                           THEN "stopped" ELSE "crash"]
    /\ UNCHANGED <<now, nonWatchdogVars>>

HandleCrash ==
    /\ watchdog.pc = "crash"
    /\ watchdog' = handle_crash(watchdog, now)
    /\ UNCHANGED <<now, nonWatchdogVars>>

\* handle_crash(): time.sleep(300)
RateSleep ==
    /\ watchdog.pc = "rate_sleep"
    /\ now + RATE_LIMIT_WAIT <= MaxWatchdogClock
    /\ now' = now + RATE_LIMIT_WAIT
    /\ watchdog' = [watchdog EXCEPT !.pc = "delay_sleep"]
    /\ UNCHANGED nonWatchdogVars

\* handle_crash(): time.sleep(delay) and "return True"
DelaySleep ==
    /\ watchdog.pc = "delay_sleep"
    /\ now + RESTART_DELAY_SECONDS <= MaxWatchdogClock
    /\ now' = now + RESTART_DELAY_SECONDS
    /\ watchdog' = [watchdog EXCEPT !.pc = "loop_test"]
    /\ UNCHANGED nonWatchdogVars

\* SIGTERM or SIGINT arrives while start() runs, early enough for the
\* sleeps of one handle_crash to fit below MaxWatchdogClock
WatchdogSignal ==
    /\ watchdog.pc # "stopped"
    /\ ~watchdog.should_stop
    /\ now + RATE_LIMIT_WAIT + RESTART_DELAY_SECONDS <= MaxWatchdogClock
    /\ watchdog' = signal_handler(watchdog)
    /\ UNCHANGED <<now, nonWatchdogVars>>

\* the steps of start() itself
WatchdogStep ==
    \/ LoopTest
    \/ LaunchScraper
    \/ WaitReturns
    \/ HandleCrash
    \/ RateSleep
    \/ DelaySleep

NextWatchdog ==
    \/ LoopTest
    \/ LaunchScraper
    \/ LaunchFails
    \/ ChildExits
    \/ WaitReturns
    \/ HandleCrash
    \/ RateSleep
    \/ DelaySleep
    \/ WatchdogSignal

SpecWatchdog == InitNetwork /\ [][NextWatchdog]_vars

\* C39 (the claim as stated): once restart_count exceeds MAX_TOTAL_RESTARTS
\* handle_crash has returned False, the loop has stopped and no scraper
\* process is launched any more.
C39_RestartsBounded ==
    /\ [] ( watchdog.restart_count > MAX_TOTAL_RESTARTS
               => /\ ~watchdog.should_restart
                  /\ watchdog.pc = "stopped" )
    /\ [] (watchdog.launches <= MAX_TOTAL_RESTARTS + 1)

\* start() keeps running, and a scraper on which terminate() was called
\* ends; a scraper left alone may run on
SpecWatchdogLive ==
    /\ InitNetwork
    /\ [][NextWatchdog]_vars
    /\ WF_vars(WatchdogStep)
    /\ WF_vars(ChildExits /\ watchdog.child.terminated)

\* C40 (the claim as stated): once the signal handler has run, a scraper
\* that is running has had terminate() called on it, no scraper process is
\* launched any more, and the loop of start() stops.
C40_SignalStopsWatchdog ==
    /\ [] ( (watchdog.should_stop /\ watchdog.child.alive)
               => watchdog.child.terminated )
    /\ [][ watchdog.should_stop
              => watchdog'.launches = watchdog.launches ]_vars
    /\ (watchdog.should_stop ~> watchdog.pc = "stopped")

====
